---- MODULE Spec2Model ----
(***************************************************************************)
(* A model of the resumable review state machine (review-state.ts,         *)
(* resume-helper.ts) and of the codeReview driver (review.ts) of           *)
(* ai-pr-reviewer.                                                         *)
(***************************************************************************)
EXTENDS Integers, Sequences, FiniteSets, TLC

VARIABLES
  state,   \* the ReviewState value held by the state owner
  clock,   \* the wall clock read by new Date()
  last,    \* the last call made on the state and what it returned
  stored,  \* the text persisted in the pull request's comment
  run      \* the codeReview run (driver position, pools, per-file tasks)

vars == <<state, clock, last, stored, run>>

----------------------------------------------------------------------------
(* Bounds of the model. *)

\* The clock stops at MaxClock: later calls all read that instant.
MaxClock == 1

----------------------------------------------------------------------------
(* Values. An optional field (error?, lastError?, a null state) is the     *)
(* empty sequence when undefined and a one-element sequence otherwise.     *)

None == <<>>

Some(v) == <<v>>

FileStatus ==
  {"pending", "summarizing", "summarized", "reviewing", "reviewed", "failed", "skipped"}

Phase == {"summarizing", "reviewing"}

\* Date.prototype.toISOString of the instant t
toISOString(t) == "2024-01-01T00:00:0" \o ToString(t) \o ".000Z"

\* state.files.findIndex(f => f.filename === filename); 0 stands for -1
findIndex(files, filename) ==
  IF \E i \in 1..Len(files) : files[i].filename = filename
  THEN CHOOSE i \in 1..Len(files) :
         /\ files[i].filename = filename
         /\ \A j \in 1..(i - 1) : files[j].filename /= filename
  ELSE 0

\* Math.max(0, n)
ClampZero(n) == IF n < 0 THEN 0 ELSE n

----------------------------------------------------------------------------
(* review-state.ts *)

createReviewState(commitId, files, now) ==
  [ version        |-> "1.0",
    startedAt      |-> now,
    updatedAt      |-> now,
    commitId       |-> commitId,
    totalFiles     |-> Len(files),
    completedFiles |-> 0,
    failedFiles    |-> 0,
    skippedFiles   |-> 0,
    phase          |-> "summarizing",
    files          |-> [i \in 1..Len(files) |->
                          [ filename       |-> files[i],
                            status         |-> "pending",
                            updatedAt      |-> now,
                            error          |-> None,
                            skipConfidence |-> None,
                            skipReason     |-> None ]],
    lastError      |-> None ]

\* The membership of a status in the three counted classes
IsCompleted(status) == status = "reviewed" \/ status = "skipped"

IsFailed(status) == status = "failed"

IsSkipped(status) == status = "skipped"

\* Delta without the decrement for the old status
DeltaNoDecrement(inOld, inNew) == IF inNew THEN 1 ELSE 0

\* completedDelta, failedDelta and skippedDelta of updateFileStatus
Delta(inOld, inNew) == (IF inNew THEN 1 ELSE 0) - (IF inOld THEN 1 ELSE 0)

\* The per-file status graph of the specification
StatusGraph ==
  { <<"pending", "summarizing">>,
    <<"summarizing", "summarized">>, <<"summarizing", "failed">>,
    <<"summarized", "reviewing">>,
    <<"reviewing", "reviewed">>, <<"reviewing", "failed">>,
    <<"failed", "pending">>, <<"failed", "summarizing">>, <<"failed", "reviewing">> }
  \cup { <<from, "skipped">> :
           from \in {"pending", "summarizing", "summarized", "reviewing", "failed"} }

\* updateFileStatus refusing a transition that is no edge of the status graph
updateFileStatusGuarded(s, filename, status, options, now) ==
  LET fileIndex == findIndex(s.files, filename)
      oldStatus == s.files[fileIndex].status
  IN  IF <<oldStatus, status>> \in StatusGraph
      THEN [s EXCEPT
              !.updatedAt = now,
              !.files[fileIndex].status = status,
              !.files[fileIndex].updatedAt = now,
              !.files[fileIndex].error = options.error,
              !.files[fileIndex].skipConfidence = options.skipConfidence,
              !.files[fileIndex].skipReason = options.skipReason,
              !.completedFiles =
                 ClampZero(s.completedFiles + Delta(IsCompleted(oldStatus), IsCompleted(status))),
              !.failedFiles =
                 ClampZero(s.failedFiles + Delta(IsFailed(oldStatus), IsFailed(status))),
              !.skippedFiles =
                 ClampZero(s.skippedFiles + Delta(IsSkipped(oldStatus), IsSkipped(status))) ]
      ELSE s

\* updateFileStatus on a filename the state holds (fileIndex /= -1)
updateFileStatus(s, filename, status, options, now) ==
  LET fileIndex == findIndex(s.files, filename)
      oldStatus == s.files[fileIndex].status
      newFiles  == [s.files EXCEPT ![fileIndex] =
                      [ filename       |-> s.files[fileIndex].filename,
                        status         |-> status,
                        updatedAt      |-> now,
                        error          |-> options.error,
                        skipConfidence |-> options.skipConfidence,
                        skipReason     |-> options.skipReason ]]
  IN  [s EXCEPT
         !.updatedAt      = now,
         !.files          = newFiles,
         !.completedFiles =
            ClampZero(s.completedFiles + Delta(IsCompleted(oldStatus), IsCompleted(status))),
         !.failedFiles    =
            ClampZero(s.failedFiles + Delta(IsFailed(oldStatus), IsFailed(status))),
         !.skippedFiles   =
            ClampZero(s.skippedFiles + Delta(IsSkipped(oldStatus), IsSkipped(status))) ]

updatePhase(s, phase, now) == [s EXCEPT !.phase = phase, !.updatedAt = now]

\* recordError reads the clock twice: for updatedAt and for the timestamp
recordError(s, error, type, now1, now2) ==
  [s EXCEPT
     !.updatedAt = now1,
     !.lastError = Some([message |-> error, timestamp |-> now2, type |-> type])]

NeedsSummary(f) ==
  f.status = "pending" \/ f.status = "failed" \/ f.status = "summarizing"

NeedsReview(f) == f.status = "summarized" \/ f.status = "reviewing"

NeedsReviewOrReviewed(f) == NeedsReview(f) \/ f.status = "reviewed"

NeedsReviewOrFailed(f) == NeedsReview(f) \/ f.status = "failed"

\* getFilesToProcess handing reviewed files out again in the reviewing phase
getFilesToProcessReReview(s) ==
  IF s.phase = "summarizing"
  THEN SelectSeq(s.files, NeedsSummary)
  ELSE SelectSeq(s.files, NeedsReviewOrReviewed)

\* getFilesToProcess retrying failed files in the reviewing phase too
getFilesToProcessRetryFailed(s) ==
  IF s.phase = "summarizing"
  THEN SelectSeq(s.files, NeedsSummary)
  ELSE SelectSeq(s.files, NeedsReviewOrFailed)

getFilesToProcess(s) ==
  IF s.phase = "summarizing"
  THEN SelectSeq(s.files, NeedsSummary)
  ELSE SelectSeq(s.files, NeedsReview)

\* isReviewComplete counting only the completed files
isReviewCompleteWithoutFailed(s) == s.completedFiles = s.totalFiles

isReviewComplete(s) == s.completedFiles + s.failedFiles = s.totalFiles

----------------------------------------------------------------------------
(* JSON. A JSON text is modelled by the value it denotes, or NotJson for a *)
(* text JSON.parse rejects. An object is the sequence of its members, in   *)
(* the order JSON.stringify writes them.                                   *)

Undefined == [j |-> "undefined"]

JNull == [j |-> "null"]

JBoolean(b) == [j |-> "boolean", b |-> b]

JString(s) == [j |-> "string", s |-> s]

JNumber(n) == [j |-> "number", n |-> n]

JArray(items) == [j |-> "array", items |-> items]

JObject(members) == [j |-> "object", members |-> members]

NotJson == [j |-> "invalid"]

\* One member of an object; JSON.stringify leaves out a member whose value
\* is undefined
Member(key, value) == << <<key, value>> >>

OptionalMember(key, field, Encode(_)) ==
  IF field = None THEN <<>> ELSE Member(key, Encode(field[1]))

\* value[key] of JavaScript, for a value that is neither null nor undefined:
\* the last member of that name of an object, undefined otherwise
Get(value, key) ==
  IF value.j = "object" /\ \E i \in 1..Len(value.members) : value.members[i][1] = key
  THEN LET i == CHOOSE i \in 1..Len(value.members) :
                  /\ value.members[i][1] = key
                  /\ \A k \in (i + 1)..Len(value.members) : value.members[k][1] /= key
       IN  value.members[i][2]
  ELSE Undefined

\* !value of JavaScript
Falsy(value) ==
  \/ value.j \in {"undefined", "null"}
  \/ value.j = "boolean" /\ ~value.b
  \/ value.j = "string" /\ value.s = ""
  \/ value.j = "number" /\ value.n = 0

stringifyFile(f) ==
  JObject(Member("filename", JString(f.filename))
          \o Member("status", JString(f.status))
          \o Member("updatedAt", JString(f.updatedAt))
          \o OptionalMember("error", f.error, JString)
          \o OptionalMember("skipConfidence", f.skipConfidence, JNumber)
          \o OptionalMember("skipReason", f.skipReason, JString))

stringifyError(e) ==
  JObject(Member("message", JString(e.message))
          \o Member("timestamp", JString(e.timestamp))
          \o Member("type", JString(e.type)))

\* serializeState with the entries of files written back to front
serializeStateReversed(s) ==
  JObject(Member("version", JString(s.version))
          \o Member("startedAt", JString(s.startedAt))
          \o Member("updatedAt", JString(s.updatedAt))
          \o Member("commitId", JString(s.commitId))
          \o Member("totalFiles", JNumber(s.totalFiles))
          \o Member("completedFiles", JNumber(s.completedFiles))
          \o Member("failedFiles", JNumber(s.failedFiles))
          \o Member("skippedFiles", JNumber(s.skippedFiles))
          \o Member("phase", JString(s.phase))
          \o Member("files",
                    JArray([i \in 1..Len(s.files) |->
                              stringifyFile(s.files[Len(s.files) + 1 - i])]))
          \o OptionalMember("lastError", s.lastError, stringifyError))

\* JSON.stringify(state, null, 2)
serializeState(s) ==
  JObject(Member("version", JString(s.version))
          \o Member("startedAt", JString(s.startedAt))
          \o Member("updatedAt", JString(s.updatedAt))
          \o Member("commitId", JString(s.commitId))
          \o Member("totalFiles", JNumber(s.totalFiles))
          \o Member("completedFiles", JNumber(s.completedFiles))
          \o Member("failedFiles", JNumber(s.failedFiles))
          \o Member("skippedFiles", JNumber(s.skippedFiles))
          \o Member("phase", JString(s.phase))
          \o Member("files", JArray([i \in 1..Len(s.files) |-> stringifyFile(s.files[i])]))
          \o OptionalMember("lastError", s.lastError, stringifyError))

Returned(value) == [outcome |-> "state", value |-> value]

ReturnedNull == [outcome |-> "null"]

Thrown(error) == [outcome |-> "throw", error |-> error]

\* The body of the try block of deserializeState
parseAndValidate(json) ==
  IF json = NotJson THEN Thrown("SyntaxError")
  ELSE IF json.j = "null" THEN Thrown("TypeError")
  ELSE IF \/ Falsy(Get(json, "version"))
          \/ Falsy(Get(json, "startedAt"))
          \/ Falsy(Get(json, "commitId"))
          \/ Get(json, "files").j /= "array"
       THEN ReturnedNull
  ELSE IF Get(json, "version") /= JString("1.0") THEN ReturnedNull
  ELSE Returned(json)

\* deserializeState catching only the SyntaxError of JSON.parse
deserializeStateCatchSyntax(json) ==
  LET r == parseAndValidate(json)
  IN  IF r = Thrown("SyntaxError") THEN ReturnedNull ELSE r

\* try { ... } catch { return null }
deserializeState(json) ==
  LET r == parseAndValidate(json)
  IN  IF r.outcome = "throw" THEN ReturnedNull ELSE r

\* The fields of a parsed object, read as the fields of a ReviewState: an
\* absent member reads as undefined
ReadOptional(value, key, Decode(_)) ==
  IF Get(value, key) = Undefined THEN None ELSE Some(Decode(Get(value, key)))

StringOf(value) == value.s

NumberOf(value) == value.n

ReadError(value) ==
  [ message   |-> Get(value, "message").s,
    timestamp |-> Get(value, "timestamp").s,
    type      |-> Get(value, "type").s ]

ReadFile(value) ==
  [ filename       |-> Get(value, "filename").s,
    status         |-> Get(value, "status").s,
    updatedAt      |-> Get(value, "updatedAt").s,
    error          |-> ReadOptional(value, "error", StringOf),
    skipConfidence |-> ReadOptional(value, "skipConfidence", NumberOf),
    skipReason     |-> ReadOptional(value, "skipReason", StringOf) ]

ReadState(value) ==
  [ version        |-> Get(value, "version").s,
    startedAt      |-> Get(value, "startedAt").s,
    updatedAt      |-> Get(value, "updatedAt").s,
    commitId       |-> Get(value, "commitId").s,
    totalFiles     |-> Get(value, "totalFiles").n,
    completedFiles |-> Get(value, "completedFiles").n,
    failedFiles    |-> Get(value, "failedFiles").n,
    skippedFiles   |-> Get(value, "skippedFiles").n,
    phase          |-> Get(value, "phase").s,
    files          |-> [i \in 1..Len(Get(value, "files").items) |->
                          ReadFile(Get(value, "files").items[i])],
    lastError      |-> ReadOptional(value, "lastError", ReadError) ]

----------------------------------------------------------------------------
(* retry-logic.ts *)

ErrorType == {"rate_limit", "timeout", "network", "api_error", "token_limit", "unknown"}

DEFAULT_MAX_DELAY == 300000

\* Math.pow(2, n) for n >= 0
RECURSIVE Pow2(_)
Pow2(n) == IF n <= 0 THEN 1 ELSE 2 * Pow2(n - 1)

\* Math.min(a, b)
Min(a, b) == IF a < b THEN a ELSE b

\* Math.max(a, b)
Max(a, b) == IF a > b THEN a ELSE b

\* calculateBackoffDelay returning the delay without the cap
calculateBackoffDelayUncapped(attempt, baseDelay, maxDelay) ==
  IF baseDelay = 0 THEN 0 ELSE baseDelay * Pow2(Max(attempt, 0))

\* maxDelay is None when the argument is left out
calculateBackoffDelay(attempt, baseDelay, maxDelay) ==
  LET cap == IF maxDelay = None THEN DEFAULT_MAX_DELAY ELSE maxDelay[1]
      att == IF attempt < 0 THEN 0 ELSE attempt
  IN  IF baseDelay = 0
      THEN 0
      ELSE Min(baseDelay * Pow2(att), cap)

getRetryStrategy(errorType) ==
  CASE errorType = "rate_limit" ->
         [maxAttempts |-> 5, baseDelay |-> 5000, shouldRetry |-> TRUE]
    [] errorType \in {"timeout", "network"} ->
         [maxAttempts |-> 3, baseDelay |-> 2000, shouldRetry |-> TRUE]
    [] errorType = "token_limit" ->
         [maxAttempts |-> 0, baseDelay |-> 0, shouldRetry |-> FALSE]
    [] OTHER ->
         [maxAttempts |-> 2, baseDelay |-> 1000, shouldRetry |-> TRUE]

\* config.perErrorTypeMaxAttempts?.[errorType] ?? config.maxAttempts
maxAttemptsFor(errorType, config) ==
  IF config.perErrorTypeMaxAttempts = None
  THEN config.maxAttempts
  ELSE IF config.perErrorTypeMaxAttempts[1][errorType] = None
       THEN config.maxAttempts
       ELSE config.perErrorTypeMaxAttempts[1][errorType][1]

\* shouldRetry without the test of the strategy
shouldRetryAnyType(currentAttempt, errorType, config) ==
  currentAttempt < maxAttemptsFor(errorType, config)

\* shouldRetry allowing the attempt that equals the maximum
shouldRetryInclusive(currentAttempt, errorType, config) ==
  /\ getRetryStrategy(errorType).shouldRetry
  /\ currentAttempt <= maxAttemptsFor(errorType, config)

shouldRetry(currentAttempt, errorType, config) ==
  IF ~getRetryStrategy(errorType).shouldRetry
  THEN FALSE
  ELSE currentAttempt < maxAttemptsFor(errorType, config)

----------------------------------------------------------------------------
(* resume-helper.ts. files is the list of the pull request's filenames,    *)
(* reviewState is None for null.                                           *)

\* new Set(filesToProcess.map(f => f.filename))
Filenames(entries) == {entries[i].filename : i \in 1..Len(entries)}

\* review-state.ts isSameReview; a state is None for null
isSameReview(state1, state2) ==
  IF state1 = None \/ state2 = None THEN FALSE
  ELSE IF state1[1].commitId /= state2[1].commitId THEN FALSE
  ELSE IF Len(state1[1].files) /= Len(state2[1].files) THEN FALSE
  ELSE \A filename \in Filenames(state1[1].files) :
         filename \in Filenames(state2[1].files)

\* filterFilesForResume selecting by its phase argument, not by state.phase
filterFilesForResumeByArgument(files, reviewState, phase) ==
  IF reviewState = None
  THEN files
  ELSE LET filenamesToProcess ==
             Filenames(getFilesToProcess([reviewState[1] EXCEPT !.phase = phase]))
       IN  SelectSeq(files, LAMBDA f : f \in filenamesToProcess)

filterFilesForResume(files, reviewState, phase) ==
  IF reviewState = None
  THEN files
  ELSE LET filenamesToProcess == Filenames(getFilesToProcess(reviewState[1]))
       IN  SelectSeq(files, LAMBDA f : f \in filenamesToProcess)

shouldResumeReview(enableResume, reviewState) ==
  IF ~enableResume THEN FALSE
  ELSE IF reviewState = None THEN FALSE
  ELSE Len(getFilesToProcess(reviewState[1])) > 0

----------------------------------------------------------------------------
(* The inputs of the calls. *)

CommitIds == {"abc123"}

FileLists == {<<"a.ts", "b.ts">>}

\* The filenames callers pass: the tracked ones and one the state never holds
FileNames == {"a.ts", "b.ts", "nonexistent.ts"}

NoOptions == [error |-> None, skipConfidence |-> None, skipReason |-> None]

\* options?: absent, or with every field given
StatusOptions ==
  { NoOptions,
    [error |-> Some("Timeout"), skipConfidence |-> Some(95),
     skipReason |-> Some("Generated file")] }

ErrorInputs == {[message |-> "Rate limit exceeded", type |-> "rate_limit"]}

\* The file lists handed to filterFilesForResume: empty, the tracked files,
\* and a reordered list with a file the state does not track
AllFilesInputs == {<<>>, <<"a.ts", "b.ts">>, <<"b.ts", "x.ts", "a.ts">>}

NoCall == [op |-> "none"]

\* The commit ids of the serialization runs: a SHA and the empty string
SerCommitIds == CommitIds \cup {""}

\* What a stored comment may hold under each key of a persisted state;
\* Undefined stands for a member that is absent
StoredVersions == {Undefined, JString("1.0"), JString("2.0"), JString(""), JNumber(1)}

StoredStartedAts == {Undefined, JString(toISOString(0)), JNull}

StoredCommitIds == {Undefined, JString("abc123"), JString("")}

StoredFiles ==
  { Undefined, JNull, JString("a.ts"), JArray(<<>>),
    JArray(<<JObject(Member("filename", JString("a.ts"))
                     \o Member("status", JString("pending")))>>) }

StoredMember(key, value) == IF value = Undefined THEN <<>> ELSE Member(key, value)

\* The texts found in the comment: objects with any of these members, values
\* that are no object, and text that is not JSON
StoredTexts ==
  { JObject(StoredMember("version", v) \o StoredMember("startedAt", s)
            \o StoredMember("commitId", c) \o StoredMember("files", f)) :
      v \in StoredVersions, s \in StoredStartedAts,
      c \in StoredCommitIds, f \in StoredFiles }
  \cup {NotJson, JNull, JNumber(42), JString("1.0"), JBoolean(TRUE), JArray(<<>>)}

----------------------------------------------------------------------------
(* The calls on the state, one action each. A call reads the clock where   *)
(* the code evaluates new Date().                                          *)

now == toISOString(clock)

Init ==
  /\ clock = 0
  /\ \E c \in CommitIds, fs \in FileLists :
       state = createReviewState(c, fs, toISOString(0))
  /\ last = NoCall
  /\ stored = None
  /\ run = [pc |-> "idle"]

\* Time passes
Tick ==
  /\ clock < MaxClock
  /\ clock' = clock + 1
  /\ UNCHANGED <<state, last, stored, run>>

\* The call stamping the state before it looks the file up
CallUpdateFileStatusStamping(filename, status, options) ==
  /\ state' = IF findIndex(state.files, filename) = 0
              THEN [state EXCEPT !.updatedAt = now]
              ELSE updateFileStatus(state, filename, status, options, now)
  /\ UNCHANGED <<clock, stored, run>>

\* updateFileStatus(state, filename, status, options): the owner keeps the
\* state returned, or the one it had when the call throws
CallUpdateFileStatus(filename, status, options) ==
  /\ state' = IF findIndex(state.files, filename) = 0
              THEN state
              ELSE updateFileStatus(state, filename, status, options, now)
  /\ UNCHANGED <<clock, stored, run>>

CallUpdatePhase(phase) ==
  /\ state' = updatePhase(state, phase, now)
  /\ UNCHANGED <<clock, stored, run>>

\* The clock may advance between the two new Date() of recordError
CallRecordError(e, t2) ==
  /\ clock' = t2
  /\ state' = recordError(state, e.message, e.type, now, toISOString(t2))
  /\ UNCHANGED <<stored, run>>

UpdateFileStatus ==
  \E filename \in FileNames, status \in FileStatus, options \in StatusOptions :
    /\ CallUpdateFileStatus(filename, status, options)
    /\ UNCHANGED last

UpdatePhase ==
  \E phase \in Phase :
    /\ CallUpdatePhase(phase)
    /\ UNCHANGED last

RecordError ==
  \E e \in ErrorInputs, t2 \in {t \in clock..(clock + 1) : t <= MaxClock} :
    /\ CallRecordError(e, t2)
    /\ UNCHANGED last

Next == Tick \/ UpdateFileStatus \/ UpdatePhase \/ RecordError

Spec == Init /\ [][Next]_vars

----------------------------------------------------------------------------
(* The same calls, each recorded in last with what it was given and what   *)
(* it did.                                                                 *)

LoggedUpdateFileStatus ==
  \E filename \in FileNames, status \in FileStatus, options \in StatusOptions :
    /\ CallUpdateFileStatus(filename, status, options)
    /\ last' = IF findIndex(state.files, filename) = 0
               THEN \* throw new Error('File ... not found in review state')
                    [op |-> "updateFileStatus", filename |-> filename,
                     threw |-> TRUE, from |-> "none", to |-> "none"]
               ELSE [op |-> "updateFileStatus", filename |-> filename,
                     threw |-> FALSE,
                     from |-> state.files[findIndex(state.files, filename)].status,
                     to |-> status]

LoggedUpdatePhase ==
  \E phase \in Phase :
    /\ CallUpdatePhase(phase)
    /\ last' = [op |-> "updatePhase", from |-> state.phase]

LoggedRecordError ==
  \E e \in ErrorInputs, t2 \in {t \in clock..(clock + 1) : t <= MaxClock} :
    /\ CallRecordError(e, t2)
    /\ last' = [op |-> "recordError"]

NextLog == Tick \/ LoggedUpdateFileStatus \/ LoggedUpdatePhase \/ LoggedRecordError

SpecLog == Init /\ [][NextLog]_vars

----------------------------------------------------------------------------
(* Serialization: the same calls from a state whose commit id may be the   *)
(* empty string.                                                           *)

InitSer ==
  /\ clock = 0
  /\ \E c \in SerCommitIds, fs \in FileLists :
       state = createReviewState(c, fs, toISOString(0))
  /\ last = NoCall
  /\ stored = None
  /\ run = [pc |-> "idle"]

SpecSer == InitSer /\ [][Next]_vars

----------------------------------------------------------------------------
(* Loading: a run finds some text in the comment, deserializes it, and     *)
(* stores the state it holds.                                              *)

InitLoad ==
  /\ clock = 0
  /\ \E c \in CommitIds, fs \in FileLists :
       state = createReviewState(c, fs, toISOString(0))
  /\ last = NoCall
  /\ stored \in {Some(text) : text \in StoredTexts}
  /\ run = [pc |-> "idle"]

LoadState ==
  /\ stored /= None
  /\ last' = [op |-> "deserializeState", input |-> stored[1],
              result |-> deserializeState(stored[1])]
  /\ UNCHANGED <<state, clock, stored, run>>

SaveState ==
  /\ stored' = Some(serializeState(state))
  /\ UNCHANGED <<state, clock, last, run>>

NextLoad == LoadState \/ SaveState

SpecLoad == InitLoad /\ [][NextLoad]_vars

----------------------------------------------------------------------------
(* review.ts: one codeReview run. The driver walks processFilesForReview,  *)
(* processSummaries, generateFinalSummaries, processReviews and the final  *)
(* comment; the per-file tasks run on the two pLimit pools. Lists that the *)
(* code only appends to and prints (summariesFailed, reviewsFailed, ...)   *)
(* are kept as sets of filenames.                                          *)

\* filterSelectedFiles, in order
RunFiles == <<"a.ts", "b.ts">>

RunFileSet == {RunFiles[i] : i \in 1..Len(RunFiles)}

\* options.openaiConcurrencyLimit, options.githubConcurrencyLimit (pLimit
\* takes a limit of at least 1), options.maxFiles (<= 0: no limit) and
\* options.disableReview
RunOptions ==
  [openaiConcurrencyLimit : {1, 2}, githubConcurrencyLimit : {1, 2},
   maxFiles : {0, 1}, disableReview : BOOLEAN]

\* The hunks of a file that calculatePatchesToPack may find to fit
MaxPatchesToPack == 1

\* A file before processFileForReview has run for it
NewTask ==
  [fetch |-> "queued", summary |-> "none", review |-> "none",
   tooLarge |-> FALSE, patchesToPack |-> 0, chainsLeft |-> 0]

\* The files of xs, in order, that satisfy Keep
Select(xs, Keep(_)) == SelectSeq(xs, Keep)

\* The first n elements of xs (all of them when n <= 0): the maxFiles cut of
\* the dispatch loops
Dispatched(xs, maxFiles) ==
  IF maxFiles <= 0 \/ Len(xs) <= maxFiles THEN xs ELSE SubSeq(xs, 1, maxFiles)

\* The number of tasks holding a slot of the pLimit(openaiConcurrencyLimit)
OpenaiActive(r) ==
  Cardinality({f \in RunFileSet :
                 r.task[f].summary = "chat" \/ r.task[f].review \in {"chain", "chat"}})

\* The number of tasks holding a slot of the pLimit(githubConcurrencyLimit)
GithubActive(r) == Cardinality({f \in RunFileSet : r.task[f].fetch = "content"})

\* lightBot.chat and heavyBot.chat calls awaiting their response
LLMCallsInFlight(r) ==
  Cardinality({f \in RunFileSet : r.task[f].summary = "chat" \/ r.task[f].review = "chat"})
  + (IF r.pc \in {"summarizeChangesets", "finalSummaries"} THEN 1 ELSE 0)

\* octokit and commenter calls awaiting their response
GithubCallsInFlight(r) ==
  Cardinality({f \in RunFileSet : r.task[f].fetch = "content" \/ r.task[f].review = "chain"})
  + (IF r.pc \in {"inProgressComment", "finalComment"} THEN 1 ELSE 0)

InitRun ==
  /\ clock = 0
  /\ \E c \in CommitIds, fs \in FileLists :
       state = createReviewState(c, fs, toISOString(0))
  /\ last = NoCall
  /\ stored = None
  /\ \E o \in RunOptions :
       run = [ pc              |-> "processFiles",
               options         |-> o,
               task            |-> [f \in RunFileSet |-> NewTask],
               githubQueue     |-> RunFiles,
               openaiQueue     |-> <<>>,
               summariesFailed |-> {},
               skippedFiles    |-> {},
               reviewsFailed   |-> {},
               reviewsSkipped  |-> {},
               statusMsg       |-> {},
               posted          |-> FALSE,
               abortedBy       |-> "none" ]

\* pLimit starts the task at the head of the queue when a slot is free:
\* processFileForReview awaits octokit.repos.getContent
StartFetch ==
  /\ run.pc = "processFiles"
  /\ run.githubQueue /= <<>>
  /\ GithubActive(run) < run.options.githubConcurrencyLimit
  /\ run' = [run EXCEPT !.githubQueue = Tail(@),
                        !.task[Head(run.githubQueue)].fetch = "content"]
  /\ UNCHANGED <<state, clock, last, stored>>

\* retrieveFileContent returns (its errors are caught); the file is kept when
\* its patch has hunks, with the sizes the later steps will find
FinishFetch ==
  \E f \in RunFileSet :
    /\ run.task[f].fetch = "content"
    /\ \/ run' = [run EXCEPT !.task[f].fetch = "dropped"]
       \/ \E large \in BOOLEAN, n \in 0..MaxPatchesToPack :
            run' = [run EXCEPT !.task[f].fetch = "kept",
                               !.task[f].tooLarge = large,
                               !.task[f].patchesToPack = n]
    /\ UNCHANGED <<state, clock, last, stored>>

Kept(f) == run.task[f].fetch = "kept"

\* Promise.all of processFilesForReview resolves: without files the run ends,
\* otherwise the driver posts the in-progress comment
FilesProcessed ==
  /\ run.pc = "processFiles"
  /\ \A f \in RunFileSet : run.task[f].fetch \in {"kept", "dropped"}
  /\ run' = [run EXCEPT !.pc = IF Select(RunFiles, Kept) = <<>>
                                THEN "done" ELSE "inProgressComment"]
  /\ UNCHANGED <<state, clock, last, stored>>

\* processSummaries: the loop queues doSummary for the first maxFiles files
\* on the openai pool and lists the others as skipped
DispatchSummaries ==
  /\ run.pc = "inProgressComment"
  /\ LET files == Select(RunFiles, Kept)
         queued == Dispatched(files, run.options.maxFiles)
         inQueue == {queued[i] : i \in 1..Len(queued)}
     IN  run' = [run EXCEPT
                   !.pc = "summaries",
                   !.openaiQueue = queued,
                   !.skippedFiles = {f \in RunFileSet : Kept(f)} \ inQueue,
                   !.task = [f \in RunFileSet |->
                               IF f \in inQueue
                               THEN [run.task[f] EXCEPT !.summary = "queued"]
                               ELSE run.task[f]]]
  /\ UNCHANGED <<state, clock, last, stored>>

\* doSummary with the catch block rethrowing: the rejection reaches
\* Promise.all and ends the run
summaryFailedRethrown(r, f, why) ==
  [r EXCEPT !.pc = "aborted", !.abortedBy = f, !.task[f].summary = why]

\* doSummary: the file is pushed on summariesFailed and null is returned
summaryFailed(r, f, why) ==
  [r EXCEPT !.task[f].summary = why, !.summariesFailed = @ \cup {f}]

\* doSummary starts in a free slot: a prompt over the token limit fails
\* without a call, otherwise lightBot.chat is awaited
StartSummary ==
  /\ run.pc = "summaries"
  /\ run.openaiQueue /= <<>>
  /\ OpenaiActive(run) < run.options.openaiConcurrencyLimit
  /\ LET f == Head(run.openaiQueue)
         r == [run EXCEPT !.openaiQueue = Tail(@)]
     IN  run' = IF run.task[f].tooLarge
                THEN summaryFailed(r, f, "tooLarge")
                ELSE [r EXCEPT !.task[f].summary = "chat"]
  /\ UNCHANGED <<state, clock, last, stored>>

\* lightBot.chat settles: a summary (triaged NEEDS_REVIEW or APPROVED), an
\* empty response, or an error
FinishSummary ==
  \E f \in RunFileSet :
    /\ run.pc = "summaries"
    /\ run.task[f].summary = "chat"
    /\ \/ \E triage \in {"needsReview", "approved"} :
            run' = [run EXCEPT !.task[f].summary = triage]
       \/ run' = summaryFailed(run, f, "empty")
       \/ run' = summaryFailed(run, f, "threw")
    /\ UNCHANGED <<state, clock, last, stored>>

Summarized(f) == run.task[f].summary \in {"needsReview", "approved"}

\* Promise.all of the summaries resolves; with summaries the driver awaits
\* heavyBot.chat(renderSummarizeChangesets)
SummariesDone ==
  /\ run.pc = "summaries"
  /\ run.openaiQueue = <<>>
  /\ \A f \in RunFileSet : run.task[f].summary /= "chat"
  /\ run' = [run EXCEPT !.pc = IF \E f \in RunFileSet : Summarized(f)
                                THEN "summarizeChangesets" ELSE "finalSummaries"]
  /\ UNCHANGED <<state, clock, last, stored>>

\* A chat call of the driver itself is awaited outside any try block: its
\* error rejects codeReview
DriverChat ==
  /\ run.pc \in {"summarizeChangesets", "finalSummaries"}
  /\ \/ run' = [run EXCEPT !.pc = "aborted", !.abortedBy = run.pc]
     \/ /\ run.pc = "summarizeChangesets"
        /\ run' = [run EXCEPT !.pc = "finalSummaries"]
     \/ /\ run.pc = "finalSummaries"
        /\ run' = [run EXCEPT
                     !.pc = "summaryStatus",
                     \* appendSummaryStatus
                     !.statusMsg = run.skippedFiles \cup run.summariesFailed]
  /\ UNCHANGED <<state, clock, last, stored>>

\* summaries.find(...)?.[2] ?? true
NeedsReviewing(f) == Kept(f) /\ run.task[f].summary /= "approved"

\* Without review the summary comment is posted; otherwise processReviews
\* queues doReview for the first maxFiles files that need a review
DispatchReviews ==
  /\ run.pc = "summaryStatus"
  /\ IF run.options.disableReview
     THEN run' = [run EXCEPT !.pc = "finalComment"]
     ELSE LET files == Select(RunFiles, NeedsReviewing)
              queued == Dispatched(files, run.options.maxFiles)
              inQueue == {queued[i] : i \in 1..Len(queued)}
          IN  run' = [run EXCEPT
                        !.pc = "reviews",
                        !.openaiQueue = queued,
                        !.reviewsSkipped =
                           {f \in RunFileSet : Kept(f) /\ ~NeedsReviewing(f)},
                        !.task = [f \in RunFileSet |->
                                    IF f \in inQueue
                                    THEN [run.task[f] EXCEPT !.review = "queued"]
                                    ELSE run.task[f]]]
  /\ UNCHANGED <<state, clock, last, stored>>

\* doReview with the catch block rethrowing
reviewFailedRethrown(r, f, why) ==
  [r EXCEPT !.pc = "aborted", !.abortedBy = f, !.task[f].review = why]

\* doReview: the file is pushed on reviewsFailed
reviewFailed(r, f, why) ==
  [r EXCEPT !.task[f].review = why, !.reviewsFailed = @ \cup {f}]

\* The entry of reviewsSkipped for a file with no hunk packed
SkippedTooLarge(f) == f \o " (diff too large)"

\* doReview going on to the chat whatever the number of hunks packed
StartReviewWithoutSizeTest ==
  /\ run.pc = "reviews"
  /\ run.openaiQueue /= <<>>
  /\ OpenaiActive(run) < run.options.openaiConcurrencyLimit
  /\ LET f == Head(run.openaiQueue)
         r == [run EXCEPT !.openaiQueue = Tail(@)]
     IN  run' = [r EXCEPT !.task[f].review = "chain",
                          !.task[f].chainsLeft = run.task[f].patchesToPack]
  /\ UNCHANGED <<state, clock, last, stored>>

\* doReview starts in a free slot of the openai pool: with no hunk to pack
\* the file is listed as skipped (diff too large), otherwise
\* packPatchesIntoInputs awaits getCommentChainForPatch for its first hunk
StartReview ==
  /\ run.pc = "reviews"
  /\ run.openaiQueue /= <<>>
  /\ OpenaiActive(run) < run.options.openaiConcurrencyLimit
  /\ LET f == Head(run.openaiQueue)
         r == [run EXCEPT !.openaiQueue = Tail(@)]
     IN  run' = IF run.task[f].patchesToPack = 0
                THEN [r EXCEPT !.task[f].review = "tooLarge",
                               !.reviewsSkipped = @ \cup {SkippedTooLarge(f)}]
                ELSE [r EXCEPT !.task[f].review = "chain",
                               !.task[f].chainsLeft = run.task[f].patchesToPack]
  /\ UNCHANGED <<state, clock, last, stored>>

\* commenter.getCommentChainsWithinRange settles (its error is caught); after
\* the last packed hunk heavyBot.chat is awaited
FinishCommentChain ==
  \E f \in RunFileSet :
    /\ run.task[f].review = "chain"
    /\ run' = IF run.task[f].chainsLeft > 1
              THEN [run EXCEPT !.task[f].chainsLeft = @ - 1]
              ELSE [run EXCEPT !.task[f].chainsLeft = 0, !.task[f].review = "chat"]
    /\ UNCHANGED <<state, clock, last, stored>>

\* heavyBot.chat settles: a response that is parsed and buffered, an empty
\* response, or an error
FinishReview ==
  \E f \in RunFileSet :
    /\ run.task[f].review = "chat"
    /\ \/ run' = [run EXCEPT !.task[f].review = "reviewed"]
       \/ run' = reviewFailed(run, f, "empty")
       \/ run' = reviewFailed(run, f, "threw")
    /\ UNCHANGED <<state, clock, last, stored>>

\* Promise.all of the reviews resolves: appendReviewStatus, then the review
\* and the summary comment are submitted
ReviewsDone ==
  /\ run.pc = "reviews"
  /\ run.openaiQueue = <<>>
  /\ \A f \in RunFileSet : run.task[f].review \notin {"chain", "chat"}
  /\ run' = [run EXCEPT !.pc = "finalComment",
                        !.statusMsg = @ \cup run.reviewsFailed \cup run.reviewsSkipped]
  /\ UNCHANGED <<state, clock, last, stored>>

\* The last call to the pull request settles: submitReview(statusMsg) when
\* reviews ran, the summary comment alone otherwise
FinalComment ==
  /\ run.pc = "finalComment"
  /\ \/ run' = [run EXCEPT !.pc = "done", !.posted = ~run.options.disableReview]
     \/ run' = [run EXCEPT !.pc = "aborted", !.abortedBy = "finalComment"]
  /\ UNCHANGED <<state, clock, last, stored>>

NextRun ==
  \/ StartFetch \/ FinishFetch \/ FilesProcessed
  \/ DispatchSummaries \/ StartSummary \/ FinishSummary \/ SummariesDone
  \/ DriverChat
  \/ DispatchReviews \/ StartReview \/ FinishCommentChain \/ FinishReview \/ ReviewsDone
  \/ FinalComment

SpecRun == InitRun /\ [][NextRun]_vars

----------------------------------------------------------------------------
(* review.ts: the packer of processReviews. A hunk is the tuple            *)
(* [startLine, endLine, patch] of the code with the patch text replaced by *)
(* its getTokenCount; limit is options.heavyTokenLimits.requestTokens; a   *)
(* comment chain is the token count of its text, 0 for the empty string.   *)

\* The for loop of calculatePatchesToPack going on past a hunk that does not
\* fit
RECURSIVE countFittingFrom(_, _, _, _)
countFittingFrom(patches, i, tokens, limit) ==
  IF i > Len(patches) THEN 0
  ELSE IF tokens + patches[i].tokens > limit
       THEN countFittingFrom(patches, i + 1, tokens, limit)
       ELSE 1 + countFittingFrom(patches, i + 1, tokens + patches[i].tokens, limit)

\* calculatePatchesToPack with continue in the place of break
calculatePatchesToPackSkipping(patches, baseTokens, limit) ==
  countFittingFrom(patches, 1, baseTokens, limit)

\* The for loop of calculatePatchesToPack from hunk i on: the hunks counted
\* from there
RECURSIVE patchesToPackFrom(_, _, _, _)
patchesToPackFrom(patches, i, tokens, limit) ==
  IF i > Len(patches) THEN 0
  ELSE IF tokens + patches[i].tokens > limit THEN 0
  ELSE 1 + patchesToPackFrom(patches, i + 1, tokens + patches[i].tokens, limit)

calculatePatchesToPack(patches, baseTokens, limit) ==
  patchesToPackFrom(patches, 1, baseTokens, limit)

\* The section packPatchesIntoInputs appends to ins.patches for a hunk: the
\* patch, and the comment chain block when the chain is not the empty string
PackedSection(patch, commentChain) ==
  [patch |-> patch,
   commentChain |-> IF commentChain /= 0 THEN Some(commentChain) ELSE None]

\* The for loop of packPatchesIntoInputs from hunk i on; chains[i] is what
\* getCommentChainForPatch returns for hunk i
RECURSIVE packFrom(_, _, _, _, _, _, _, _)
packFrom(patches, chains, patchesToPack, limit, i, tokens, patchesPacked, body) ==
  IF i > Len(patches) \/ patchesPacked >= patchesToPack
  THEN [patchesPacked |-> patchesPacked, patches |-> body]
  ELSE LET commentChain == chains[i]
           tokensAfter == IF tokens + commentChain > limit
                          THEN tokens
                          ELSE tokens + commentChain
       IN  packFrom(patches, chains, patchesToPack, limit, i + 1, tokensAfter,
                    patchesPacked + 1,
                    Append(body, PackedSection(patches[i], commentChain)))

\* packPatchesIntoInputs for a pull request (codeReview has returned before
\* when there is none): the number of hunks packed and ins.patches
packPatchesIntoInputs(patches, chains, patchesToPack, baseTokens, limit) ==
  packFrom(patches, chains, patchesToPack, limit, 1, baseTokens, 0, <<>>)

\* doReview up to the chat: the number of hunks to pack, then the packing;
\* the request is sent when patchesPacked > 0
assembleReviewRequest(patches, chains, baseTokens, limit) ==
  packPatchesIntoInputs(patches, chains,
                        calculatePatchesToPack(patches, baseTokens, limit),
                        baseTokens, limit)

----------------------------------------------------------------------------
(* review.ts: parseReview and its mapper. A review is the record           *)
(* [startLine, endLine, comment] of the code, comment being the text.      *)

\* The state of the loop of findBestPatchMapping before the first hunk
NoMapping ==
  [withinPatch |-> FALSE, bestPatchStartLine |-> -1, bestPatchEndLine |-> -1,
   maxIntersection |-> 0]

\* The loop of a findBestPatchMapping that takes a range to be within a hunk
\* when it covers the whole hunk
RECURSIVE wholeHunkMappingFrom(_, _, _, _, _)
wholeHunkMappingFrom(patches, i, reviewStartLine, reviewEndLine, best) ==
  IF i > Len(patches) THEN best
  ELSE LET intersectionStart == Max(reviewStartLine, patches[i].startLine)
           intersectionEnd == Min(reviewEndLine, patches[i].endLine)
           intersectionLength == Max(0, intersectionEnd - intersectionStart + 1)
           next == IF intersectionLength > best.maxIntersection
                   THEN [withinPatch |-> intersectionLength =
                                           patches[i].endLine - patches[i].startLine + 1,
                         bestPatchStartLine |-> patches[i].startLine,
                         bestPatchEndLine |-> patches[i].endLine,
                         maxIntersection |-> intersectionLength]
                   ELSE best
       IN  IF next.withinPatch THEN next
           ELSE wholeHunkMappingFrom(patches, i + 1, reviewStartLine, reviewEndLine, next)

findBestPatchMappingWholeHunk(patches, reviewStartLine, reviewEndLine) ==
  wholeHunkMappingFrom(patches, 1, reviewStartLine, reviewEndLine, NoMapping)

\* The loop of a findBestPatchMapping that lets a later hunk of equal
\* intersection replace the best one
RECURSIVE lastOnTiesMappingFrom(_, _, _, _, _)
lastOnTiesMappingFrom(patches, i, reviewStartLine, reviewEndLine, best) ==
  IF i > Len(patches) THEN best
  ELSE LET intersectionStart == Max(reviewStartLine, patches[i].startLine)
           intersectionEnd == Min(reviewEndLine, patches[i].endLine)
           intersectionLength == Max(0, intersectionEnd - intersectionStart + 1)
           next == IF intersectionLength > 0 /\ intersectionLength >= best.maxIntersection
                   THEN [withinPatch |-> intersectionLength =
                                           reviewEndLine - reviewStartLine + 1,
                         bestPatchStartLine |-> patches[i].startLine,
                         bestPatchEndLine |-> patches[i].endLine,
                         maxIntersection |-> intersectionLength]
                   ELSE best
       IN  IF next.withinPatch THEN next
           ELSE lastOnTiesMappingFrom(patches, i + 1, reviewStartLine, reviewEndLine, next)

findBestPatchMappingLastOnTies(patches, reviewStartLine, reviewEndLine) ==
  lastOnTiesMappingFrom(patches, 1, reviewStartLine, reviewEndLine, NoMapping)

\* The for loop of findBestPatchMapping from hunk i on
RECURSIVE bestPatchMappingFrom(_, _, _, _, _)
bestPatchMappingFrom(patches, i, reviewStartLine, reviewEndLine, best) ==
  IF i > Len(patches) THEN best
  ELSE LET intersectionStart == Max(reviewStartLine, patches[i].startLine)
           intersectionEnd == Min(reviewEndLine, patches[i].endLine)
           intersectionLength == Max(0, intersectionEnd - intersectionStart + 1)
           next == IF intersectionLength > best.maxIntersection
                   THEN [withinPatch |-> intersectionLength =
                                           reviewEndLine - reviewStartLine + 1,
                         bestPatchStartLine |-> patches[i].startLine,
                         bestPatchEndLine |-> patches[i].endLine,
                         maxIntersection |-> intersectionLength]
                   ELSE best
       IN  IF next.withinPatch THEN next
           ELSE bestPatchMappingFrom(patches, i + 1, reviewStartLine, reviewEndLine, next)

findBestPatchMapping(patches, reviewStartLine, reviewEndLine) ==
  bestPatchMappingFrom(patches, 1, reviewStartLine, reviewEndLine, NoMapping)

\* The note for a review mapped to the hunk with the greatest overlap
GreatestOverlapNote(startLine, endLine) ==
  "> Note: This review was outside of the patch, so it was mapped to the patch with the greatest overlap. Original lines ["
  \o ToString(startLine) \o "-" \o ToString(endLine) \o "]\n\n"

\* The note for a review that no hunk overlaps
NoOverlapNote(startLine, endLine) ==
  "> Note: This review was outside of the patch, but no patch was found that overlapped with it. Original lines ["
  \o ToString(startLine) \o "-" \o ToString(endLine) \o "]\n\n"

\* mapReviewToPatch: the review as it is after the call (patches holds at
\* least one hunk)
mapReviewToPatch(patches, review) ==
  LET m == findBestPatchMapping(patches, review.startLine, review.endLine)
  IN  IF m.withinPatch THEN review
      ELSE IF m.bestPatchStartLine /= -1 /\ m.bestPatchEndLine /= -1
      THEN [startLine |-> m.bestPatchStartLine,
            endLine   |-> m.bestPatchEndLine,
            comment   |-> GreatestOverlapNote(review.startLine, review.endLine)
                            \o review.comment]
      ELSE [startLine |-> patches[1].startLine,
            endLine   |-> patches[1].endLine,
            comment   |-> NoOverlapNote(review.startLine, review.endLine)
                            \o review.comment]

\* The lines of a response. kind is what the loop of parseReview takes the
\* line for: "marker" when lineNumberRangeRegex matches (startLine and endLine
\* are its two numbers), "separator" when the trimmed line is ---, "text"
\* otherwise. fence is "open" for a line that opens a suggestion block,
\* "close" for a line of three grave accents, "no" otherwise; stripped is the
\* text without a leading "<digits>: ". A grave accent is written ' in the
\* texts.
Line(kind, text, stripped, fence, startLine, endLine) ==
  [kind |-> kind, text |-> text, stripped |-> stripped, fence |-> fence,
   startLine |-> startLine, endLine |-> endLine]

MarkerLine(startLine, endLine) ==
  LET text == ToString(startLine) \o "-" \o ToString(endLine) \o ":"
  IN  Line("marker", text, text, "no", startLine, endLine)

SeparatorLine == Line("separator", "---", "---", "no", 0, 0)

TextLine(text) == Line("text", text, text, "no", 0, 0)

BlankLine == TextLine("")

NumberedLine == Line("text", "12: const x = 1", "const x = 1", "no", 0, 0)

SuggestionFence == Line("text", "'''suggestion", "'''suggestion", "open", 0, 0)

ClosingFence == Line("text", "'''", "'''", "close", 0, 0)

\* response.trim().split('\n'): the blank lines at both ends are gone, and
\* the empty string splits into one empty line
RECURSIVE TrimStart(_)
TrimStart(lines) ==
  IF lines /= <<>> /\ Head(lines) = BlankLine THEN TrimStart(Tail(lines)) ELSE lines

RECURSIVE TrimEnd(_)
TrimEnd(lines) ==
  IF lines /= <<>> /\ lines[Len(lines)] = BlankLine
  THEN TrimEnd(SubSeq(lines, 1, Len(lines) - 1))
  ELSE lines

Trim(lines) ==
  LET trimmed == TrimEnd(TrimStart(lines))
  IN  IF trimmed = <<>> THEN <<BlankLine>> ELSE trimmed

\* sanitizeCodeBlock(comment, 'suggestion') from line i on: from an opening
\* fence to the next line holding a fence the "<digits>: " prefixes are
\* removed; an opening fence with no fence after it ends the scan
RECURSIVE sanitizeFrom(_, _, _)
sanitizeFrom(lines, i, inBlock) ==
  IF i > Len(lines) THEN lines
  ELSE IF inBlock
  THEN IF lines[i].fence /= "no"
       THEN sanitizeFrom(lines, i + 1, FALSE)
       ELSE sanitizeFrom([lines EXCEPT ![i].text = lines[i].stripped], i + 1, TRUE)
  ELSE IF lines[i].fence = "open"
  THEN IF \E j \in (i + 1)..Len(lines) : lines[j].fence /= "no"
       THEN sanitizeFrom(lines, i + 1, TRUE)
       ELSE lines
  ELSE sanitizeFrom(lines, i + 1, FALSE)

\* sanitizeResponse; the responses hold no diff block, which the second pass
\* treats in the same way
sanitizeResponse(lines) == sanitizeFrom(lines, 1, FALSE)

\* storeReview keeping only the first review of a response
storeReviewOnce(patches, current, reviews) ==
  IF current = None \/ reviews /= <<>> THEN reviews
  ELSE Append(reviews, mapReviewToPatch(patches, current[1]))

\* storeReview; current is None while currentStartLine and currentEndLine
\* are null
storeReview(patches, current, reviews) ==
  IF current = None THEN reviews
  ELSE Append(reviews, mapReviewToPatch(patches, current[1]))

\* The for loop of parseReview from line i on, and the storeReview after it
RECURSIVE parseFrom(_, _, _, _, _)
parseFrom(lines, i, patches, current, reviews) ==
  IF i > Len(lines) THEN storeReview(patches, current, reviews)
  ELSE IF lines[i].kind = "marker"
  THEN parseFrom(lines, i + 1, patches,
                 Some([startLine |-> lines[i].startLine,
                       endLine |-> lines[i].endLine, comment |-> ""]),
                 storeReview(patches, current, reviews))
  ELSE IF lines[i].kind = "separator"
  THEN parseFrom(lines, i + 1, patches, None, storeReview(patches, current, reviews))
  ELSE IF current /= None
  THEN parseFrom(lines, i + 1, patches,
                 Some([current[1] EXCEPT !.comment = @ \o lines[i].text \o "\n"]),
                 reviews)
  ELSE parseFrom(lines, i + 1, patches, current, reviews)

\* parseReview(response, patches); response is the list of its lines
parseReview(response, patches) ==
  parseFrom(sanitizeResponse(Trim(response)), 1, patches, None, <<>>)

----------------------------------------------------------------------------
(* review.ts, diff text. A text is the list of its lines (the text split  *)
(* at "\n", so never empty: the empty text is one empty line, and a text   *)
(* that ends with "\n" has an empty last line). A line is its first        *)
(* character (mark), the rest of it, and header: the groups captured by    *)
(* /^@@ -(\d+),(\d+) \+(\d+),(\d+) @@/ when the line matches, else None.   *)

DiffLine(mark, rest) == [mark |-> mark, rest |-> rest, header |-> None]

\* "@@ -oldStart,oldLines +newStart,newLines @@"
HunkHeader(oldStart, oldLines, newStart, newLines) ==
  [mark |-> "@", rest |-> "@",
   header |-> Some([oldBegin |-> oldStart, oldDiff |-> oldLines,
                    newBegin |-> newStart, newDiff |-> newLines])]

EmptyLine == DiffLine("", "")

\* line.startsWith(c), c one character
startsWith(line, c) == line.mark = c

\* patch.substring(from, to) where both are starts of lines (1-based here):
\* the lines from..to-1 and the "\n" that ends the last of them
SubstringOfLines(lines, from, to) == SubSeq(lines, from, to - 1) \o <<EmptyLine>>

\* patch.substring(from) where from is the start of a line
SubstringFromLine(lines, from) == SubSeq(lines, from, Len(lines))

\* splitPatch without the push that follows the loop
RECURSIVE splitDroppingTailFrom(_, _, _, _)
splitDroppingTailFrom(lines, i, lastIdx, result) ==
  IF i > Len(lines)
  THEN result
  ELSE IF lines[i].header = None
       THEN splitDroppingTailFrom(lines, i + 1, lastIdx, result)
       ELSE IF lastIdx = -1
            THEN splitDroppingTailFrom(lines, i + 1, i, result)
            ELSE splitDroppingTailFrom(lines, i + 1, i,
                   Append(result, SubstringOfLines(lines, lastIdx, i)))

splitPatchDroppingTail(patch) ==
  IF patch = None THEN <<>> ELSE splitDroppingTailFrom(patch[1], 1, -1, <<>>)

\* The loop of splitPatch over the matches of the pattern, from line i on
RECURSIVE splitFrom(_, _, _, _)
splitFrom(lines, i, lastIdx, result) ==
  IF i > Len(lines)
  THEN IF lastIdx /= -1
       THEN Append(result, SubstringFromLine(lines, lastIdx))
       ELSE result
  ELSE IF lines[i].header = None
       THEN splitFrom(lines, i + 1, lastIdx, result)
       ELSE IF lastIdx = -1
            THEN splitFrom(lines, i + 1, i, result)
            ELSE splitFrom(lines, i + 1, i,
                   Append(result, SubstringOfLines(lines, lastIdx, i)))

\* splitPatch(patch); patch is None for null or undefined
splitPatch(patch) ==
  IF patch = None THEN <<>> ELSE splitFrom(patch[1], 1, -1, <<>>)

\* The first line of the patch that matches the header pattern, 0 if none
firstMatch(patch) ==
  IF \E i \in 1..Len(patch) : patch[i].header /= None
  THEN CHOOSE i \in 1..Len(patch) :
         /\ patch[i].header /= None
         /\ \A j \in 1..(i - 1) : patch[j].header = None
  ELSE 0

patchStartEndLine(patch) ==
  IF firstMatch(patch) = 0
  THEN None
  ELSE LET m == patch[firstMatch(patch)].header[1]
       IN  Some([oldHunk |-> [startLine |-> m.oldBegin,
                              endLine |-> m.oldBegin + m.oldDiff - 1],
                 newHunk |-> [startLine |-> m.newBegin,
                              endLine |-> m.newBegin + m.newDiff - 1]])

skipStart == 3

skipEnd == 3

\* patch.split('\n').slice(1), without its last line when that one is empty
bodyLines(patch) ==
  LET lines == Tail(patch)
  IN  IF Len(lines) > 0 /\ lines[Len(lines)] = EmptyLine
      THEN SubSeq(lines, 1, Len(lines) - 1)
      ELSE lines

\* !lines.some(line => line.startsWith('+'))
removalOnly(lines) == ~ \E i \in 1..Len(lines) : startsWith(lines[i], "+")

\* An entry of newHunkLines: "number: text" when number is Some, else text
Numbered(n, text) == [number |-> Some(n), text |-> text]

Unnumbered(text) == [number |-> None, text |-> text]

\* parsePatch advancing newLine on removed lines too
RECURSIVE parseLinesCountingRemoved(_, _, _, _, _)
parseLinesCountingRemoved(lines, currentLine, newLine, oldHunkLines, newHunkLines) ==
  IF currentLine > Len(lines)
  THEN [oldHunk |-> oldHunkLines, newHunk |-> newHunkLines]
  ELSE LET line == lines[currentLine] IN
       IF startsWith(line, "-")
       THEN parseLinesCountingRemoved(lines, currentLine + 1, newLine + 1,
                       Append(oldHunkLines, line.rest), newHunkLines)
       ELSE IF startsWith(line, "+")
       THEN parseLinesCountingRemoved(lines, currentLine + 1, newLine + 1, oldHunkLines,
                       Append(newHunkLines, Numbered(newLine, line.rest)))
       ELSE parseLinesCountingRemoved(lines, currentLine + 1, newLine + 1,
                       Append(oldHunkLines, line.mark \o line.rest),
                       Append(newHunkLines,
                              IF \/ removalOnly(lines)
                                 \/ /\ currentLine > skipStart
                                    /\ currentLine <= Len(lines) - skipEnd
                              THEN Numbered(newLine, line.mark \o line.rest)
                              ELSE Unnumbered(line.mark \o line.rest)))

parsePatchCountingRemoved(patch) ==
  IF patchStartEndLine(patch) = None
  THEN None
  ELSE Some(parseLinesCountingRemoved(bodyLines(patch), 1,
                       patchStartEndLine(patch)[1].newHunk.startLine, <<>>, <<>>))

\* The loop of parsePatch from the body line currentLine on
RECURSIVE parseLines(_, _, _, _, _)
parseLines(lines, currentLine, newLine, oldHunkLines, newHunkLines) ==
  IF currentLine > Len(lines)
  THEN [oldHunk |-> oldHunkLines, newHunk |-> newHunkLines]
  ELSE LET line == lines[currentLine] IN
       IF startsWith(line, "-")
       THEN parseLines(lines, currentLine + 1, newLine,
                       Append(oldHunkLines, line.rest), newHunkLines)
       ELSE IF startsWith(line, "+")
       THEN parseLines(lines, currentLine + 1, newLine + 1, oldHunkLines,
                       Append(newHunkLines, Numbered(newLine, line.rest)))
       ELSE parseLines(lines, currentLine + 1, newLine + 1,
                       Append(oldHunkLines, line.mark \o line.rest),
                       Append(newHunkLines,
                              IF \/ removalOnly(lines)
                                 \/ /\ currentLine > skipStart
                                    /\ currentLine <= Len(lines) - skipEnd
                              THEN Numbered(newLine, line.mark \o line.rest)
                              ELSE Unnumbered(line.mark \o line.rest)))

\* parsePatch(patch): the lines of oldHunk and of newHunk, None for null
parsePatch(patch) ==
  IF patchStartEndLine(patch) = None
  THEN None
  ELSE Some(parseLines(bodyLines(patch), 1,
                       patchStartEndLine(patch)[1].newHunk.startLine, <<>>, <<>>))

----------------------------------------------------------------------------
(* review-state.ts, classifyError. String(error) is the list of the        *)
(* pieces it is made of; a piece is matched as a whole, so a keyword is    *)
(* found in a text when one of the pieces, lowercased, is the keyword.     *)

\* piece.toLowerCase()
toLowerCase(piece) ==
  CASE piece = "Rate Limit" -> "rate limit"
    [] piece = "TIMEOUT" -> "timeout"
    [] piece = "Timed Out" -> "timed out"
    [] piece = "Network" -> "network"
    [] piece = "ECONNRESET" -> "econnreset"
    [] piece = "ENOTFOUND" -> "enotfound"
    [] piece = "ECONNREFUSED" -> "econnrefused"
    [] piece = "API Error" -> "api error"
    [] piece = "Bad Request" -> "bad request"
    [] piece = "Invalid" -> "invalid"
    [] piece = "Disk Full" -> "disk full"
    [] OTHER -> piece

\* String(error).toLowerCase()
lowerCased(error) == [i \in 1..Len(error) |-> toLowerCase(error[i])]

\* errorStr.includes(keyword)
includes(errorStr, keyword) == \E i \in 1..Len(errorStr) : errorStr[i] = keyword

\* classifyError testing the timeout keywords before the rate-limit ones
classifyErrorTimeoutFirst(error) ==
  LET errorStr == lowerCased(error) IN
  IF includes(errorStr, "timeout") \/ includes(errorStr, "timed out")
  THEN "timeout"
  ELSE IF includes(errorStr, "rate limit") \/ includes(errorStr, "429")
  THEN "rate_limit"
  ELSE IF \/ includes(errorStr, "network") \/ includes(errorStr, "econnreset")
          \/ includes(errorStr, "enotfound") \/ includes(errorStr, "econnrefused")
  THEN "network"
  ELSE IF \/ includes(errorStr, "api error") \/ includes(errorStr, "bad request")
          \/ includes(errorStr, "invalid")
  THEN "api_error"
  ELSE "unknown"

classifyError(error) ==
  LET errorStr == lowerCased(error) IN
  IF includes(errorStr, "rate limit") \/ includes(errorStr, "429")
  THEN "rate_limit"
  ELSE IF includes(errorStr, "timeout") \/ includes(errorStr, "timed out")
  THEN "timeout"
  ELSE IF \/ includes(errorStr, "network") \/ includes(errorStr, "econnreset")
          \/ includes(errorStr, "enotfound") \/ includes(errorStr, "econnrefused")
  THEN "network"
  ELSE IF \/ includes(errorStr, "api error") \/ includes(errorStr, "bad request")
          \/ includes(errorStr, "invalid")
  THEN "api_error"
  ELSE "unknown"

----------------------------------------------------------------------------
(* review-state.ts, one owner of the state. The work on the files runs     *)
(* concurrently; a file that finishes reports its completion, and the      *)
(* owner applies the reported completions one at a time, in whatever       *)
(* order, each with updateFileStatus on the state the previous call        *)
(* returned. run.order lists the files in the order of application.        *)

OwnerFiles == <<"a.ts", "b.ts", "c.ts">>

OwnerFileSet == {OwnerFiles[i] : i \in 1..Len(OwnerFiles)}

\* What a file reports when its work ends, with the options its status takes
Completions ==
  { [status |-> "summarized", options |-> NoOptions],
    [status |-> "reviewed", options |-> NoOptions],
    [status |-> "failed",
     options |-> [error |-> Some("Timeout"), skipConfidence |-> None,
                  skipReason |-> None]],
    [status |-> "skipped",
     options |-> [error |-> None, skipConfidence |-> Some(95),
                  skipReason |-> Some("Generated file")]] }

\* The state after updateFileStatus(_, files[k], status) for k = i..Len(files)
RECURSIVE startAll(_, _, _, _, _)
startAll(s, files, i, status, t) ==
  IF i > Len(files) THEN s
  ELSE startAll(updateFileStatus(s, files[i], status, NoOptions, t),
                files, i + 1, status, t)

\* The work on every file has begun: all are summarizing, or all reviewing
InitOwner ==
  /\ clock = 0
  /\ \E c \in CommitIds, status \in {"summarizing", "reviewing"} :
       state = startAll(createReviewState(c, OwnerFiles, toISOString(0)),
                        OwnerFiles, 1, status, toISOString(0))
  /\ last = NoCall
  /\ stored = None
  /\ run = [pc |-> "owner", snapshot |-> state,
            reported |-> [f \in OwnerFileSet |-> None], order |-> <<>>]

\* The work on file f ends and reports its completion to the owner
ReportCompletion(f) ==
  /\ run.pc = "owner"
  /\ run.reported[f] = None
  /\ \E c \in Completions : run' = [run EXCEPT !.reported[f] = Some(c)]
  /\ UNCHANGED <<state, clock, last, stored>>

\* The owner applying the completion of f to the snapshot it started from
ApplyCompletionToSnapshot(f) ==
  /\ run.pc = "owner"
  /\ run.reported[f] /= None
  /\ \A i \in 1..Len(run.order) : run.order[i] /= f
  /\ state' = updateFileStatus(run.snapshot, f, run.reported[f][1].status,
                               run.reported[f][1].options, now)
  /\ run' = [run EXCEPT !.order = Append(@, f)]
  /\ UNCHANGED <<clock, last, stored>>

\* The owner applies the completion of f to the state it holds
ApplyCompletion(f) ==
  /\ run.pc = "owner"
  /\ run.reported[f] /= None
  /\ \A i \in 1..Len(run.order) : run.order[i] /= f
  /\ state' = updateFileStatus(state, f, run.reported[f][1].status,
                               run.reported[f][1].options, now)
  /\ run' = [run EXCEPT !.order = Append(@, f)]
  /\ UNCHANGED <<clock, last, stored>>

ReportCompletions == \E f \in OwnerFileSet : ReportCompletion(f)

ApplyCompletions == \E f \in OwnerFileSet : ApplyCompletion(f)

NextOwner == Tick \/ ReportCompletions \/ ApplyCompletions

SpecOwner == InitOwner /\ [][NextOwner]_vars

----------------------------------------------------------------------------
(* review-state.ts, updateFileStatus and the objects it touches. The heap  *)
(* holds the state object passed (state; its files member refers to the    *)
(* array files), and the objects the call allocates (the array newFiles    *)
(* and the object returned).                                               *)

\* The heap before the call, holding the value s
HeapOf(s) ==
  [state |-> [s EXCEPT !.files = "files"], files |-> s.files,
   newFiles |-> <<>>, returned |-> <<>>]

\* The value of the state object at ref: its members, with the array its
\* files member refers to
Deref(heap, ref) == [heap[ref] EXCEPT !.files = heap[heap[ref].files]]

\* updateFileStatus with newFiles = state.files in place of the copy
updateFileStatusAliasing(heap, filename, status, options, t) ==
  LET r == updateFileStatus(Deref(heap, "state"), filename, status, options, t)
  IN  [heap EXCEPT !.files = r.files,
                   !.returned = [r EXCEPT !.files = "files"]]

\* updateFileStatus on the heap: newFiles = [...state.files], the entry of
\* the file replaced in newFiles, and a new object {...state, ...} returned
updateFileStatusOnHeap(heap, filename, status, options, t) ==
  LET r == updateFileStatus(Deref(heap, "state"), filename, status, options, t)
  IN  [heap EXCEPT !.newFiles = r.files,
                   !.returned = [r EXCEPT !.files = "newFiles"]]

\* The call on the value s: the value returned, and the value of the
\* argument after the call
updateFileStatusCall(s, filename, status, options, t) ==
  LET heap == updateFileStatusOnHeap(HeapOf(s), filename, status, options, t)
  IN  [returned |-> Deref(heap, "returned"), argument |-> Deref(heap, "state")]

----------------------------------------------------------------------------
(* The functions that read no state: last holds one call, its arguments    *)
(* drawn at the start, and its result (None until the call has returned).  *)

\* The largest attempt number passed to shouldRetry
MaxRetryAttempt == 6

\* The largest attempt number passed to calculateBackoffDelay
MaxBackoffAttempt == 10

\* perErrorTypeMaxAttempts objects: empty, or with one type overridden
OverrideMaps ==
  {[t \in ErrorType |-> None]}
  \cup {[t \in ErrorType |-> IF t = u THEN Some(n) ELSE None] :
          u \in ErrorType, n \in {0, 1, 5}}

RetryConfigs ==
  [maxAttempts : 0..3,
   perErrorTypeMaxAttempts : {None} \cup {Some(m) : m \in OverrideMaps}]

ShouldRetryCalls ==
  [op : {"shouldRetry"}, currentAttempt : (-1)..MaxRetryAttempt,
   errorType : ErrorType, config : RetryConfigs, result : {None}]

BackoffCalls ==
  [op : {"calculateBackoffDelay"}, attempt : (-2)..MaxBackoffAttempt,
   baseDelay : {0, 1, 1000, 2000, 5000},
   maxDelay : {None, Some(0), Some(3000), Some(60000), Some(300000), Some(1000000)},
   result : {None}]

\* The states compared by isSameReview: null, and fresh states of two commits
\* over file lists that differ in order, in length, in one name, or repeat a
\* name
SameReviewFileLists ==
  { <<>>, <<"a.ts">>, <<"a.ts", "b.ts">>, <<"b.ts", "a.ts">>, <<"a.ts", "c.ts">>,
    <<"a.ts", "a.ts">>, <<"a.ts", "b.ts", "c.ts">> }

SameReviewStates ==
  {None} \cup { Some(createReviewState(c, fs, toISOString(0))) :
                  c \in {"abc123", "def456"}, fs \in SameReviewFileLists }

SameReviewCalls ==
  [op : {"isSameReview"}, state1 : SameReviewStates, state2 : SameReviewStates,
   result : {None}]

\* The most hunks of a file, and the most tokens of a hunk or comment chain
MaxHunks == 3

MaxHunkTokens == 3

\* The i-th hunk of a file, of the given token count
Hunk(i, tokens) == [startLine |-> 10 * i, endLine |-> 10 * i + 4, tokens |-> tokens]

\* The files of up to MaxHunks hunks
HunkLists ==
  UNION { { [i \in 1..n |-> Hunk(i, cost[i])] : cost \in [1..n -> 1..MaxHunkTokens] } :
            n \in 0..MaxHunks }

PatchesToPackCalls ==
  [op : {"calculatePatchesToPack"}, patches : HunkLists, baseTokens : {0, 2, 6},
   limit : {3, 5}, result : {None}]

\* Hunks of one token each with comment chains that are empty or of one or
\* four tokens, and a count that may exceed the number of hunks
PackCalls ==
  UNION { [op : {"packPatchesIntoInputs"},
           patches : {[i \in 1..n |-> Hunk(i, 1)]},
           chains : [1..n -> {0, 1, 4}],
           patchesToPack : 0..(n + 1),
           baseTokens : {0, 2}, limit : {3, 5}, result : {None}] :
            n \in 0..MaxHunks }

\* The last line of a file
MaxLine == 5

\* The new-line ranges a hunk may have
LineRanges ==
  {h \in [startLine : 1..MaxLine, endLine : 1..MaxLine, tokens : {1}] :
     h.startLine <= h.endLine}

\* The files of one or two hunks
MapperHunkLists ==
  {<<h>> : h \in LineRanges} \cup {<<h1, h2>> : h1 \in LineRanges, h2 \in LineRanges}

\* The ranges a response may name, the start after the end included
MapperCalls ==
  [op : {"mapReviewToPatch"}, patches : MapperHunkLists,
   review : [startLine : 1..MaxLine, endLine : 1..MaxLine, comment : {"LGTM!\n"}],
   result : {None}]

\* The most lines of a response
MaxResponseLines == 4

ResponseLines ==
  { MarkerLine(1, 2), MarkerLine(4, 5), SeparatorLine, BlankLine,
    TextLine("Looks good"), NumberedLine, SuggestionFence, ClosingFence }

Responses == UNION { [1..n -> ResponseLines] : n \in 0..MaxResponseLines }

\* Responses about a file whose one hunk spans the lines 1 to 3
ParseReviewCalls ==
  [op : {"parseReview"}, response : Responses,
   patches : {<<[startLine |-> 1, endLine |-> 3, tokens |-> 1]>>},
   result : {None}]

\* The most lines of a diff text passed to splitPatch
MaxPatchLines == 4

\* Lines of a diff text: two hunk headers, an added line, a header without
\* line counts (which the pattern does not match) and an empty line
PatchLines ==
  {HunkHeader(1, 3, 1, 4), HunkHeader(10, 2, 12, 2), DiffLine("+", "added"),
   DiffLine("@", "@ -1 +1 @@"), EmptyLine}

PatchTexts == UNION {[1..n -> PatchLines] : n \in 1..MaxPatchLines}

SplitPatchCalls ==
  [op : {"splitPatch"}, patch : {None} \cup {Some(t) : t \in PatchTexts},
   result : {None}]

\* The most body lines of a hunk passed to parsePatch
MaxBodyLines == 7

HunkBodyLines ==
  {DiffLine("+", "added"), DiffLine("-", "removed"), DiffLine(" ", "context")}

HunkBodies == UNION {[1..n -> HunkBodyLines] : n \in 0..MaxBodyLines}

\* A hunk as splitPatch cuts it: the header, the body and, when another hunk
\* follows, the empty last line; and a text without header
ParsePatchCalls ==
  {[op |-> "parsePatch", newStart |-> 12, body |-> b,
    patch |-> <<HunkHeader(10, 2, 12, 2)>> \o b \o e, result |-> None] :
     b \in HunkBodies, e \in {<<>>, <<EmptyLine>>}}
  \cup {[op |-> "parsePatch", newStart |-> 0, body |-> <<>>,
         patch |-> <<DiffLine("+", "added")>>, result |-> None]}

\* The most pieces of an error text passed to classifyError
MaxPieces == 2

\* Pieces of error texts: every keyword, in upper, mixed or lower case, and
\* a piece that holds no keyword
ErrorPieces ==
  {"Rate Limit", "429", "TIMEOUT", "timed out", "Timed Out", "Network",
   "ECONNRESET", "enotfound", "ECONNREFUSED", "API Error", "bad request",
   "Invalid", "Disk Full"}

ErrorTexts == UNION {[1..n -> ErrorPieces] : n \in 0..MaxPieces}

ClassifyErrorCalls == [op : {"classifyError"}, error : ErrorTexts, result : {None}]

\* States of a review of two files: a.ts in any status, set with or without
\* options, b.ts pending, failed or skipped, in either phase, with or without
\* a recorded error
FrameStates ==
  { LET s0 == createReviewState("abc123", <<"a.ts", "b.ts">>, toISOString(0))
        s1 == updateFileStatus(s0, "a.ts", sa, o, toISOString(0))
        s2 == updateFileStatus(s1, "b.ts", sb, NoOptions, toISOString(0))
        s3 == updatePhase(s2, p, toISOString(0))
    IN  IF e THEN recordError(s3, "Rate limit exceeded", "rate_limit",
                              toISOString(0), toISOString(0))
        ELSE s3 :
      sa \in FileStatus, o \in StatusOptions,
      sb \in {"pending", "failed", "skipped"}, p \in Phase, e \in BOOLEAN }

UpdateFileStatusCalls ==
  [op : {"updateFileStatus"}, state : FrameStates, filename : {"a.ts", "b.ts"},
   status : FileStatus, options : StatusOptions, now : {toISOString(1)},
   result : {None}]

\* Files of up to MaxHunks hunks of one to MaxHunkTokens tokens, each hunk
\* with no comment chain or one of one or four tokens
DoReviewCalls ==
  UNION { [op : {"doReview"}, patches : {h \in HunkLists : Len(h) = n},
           chains : [1..n -> {0, 1, 4}], baseTokens : {2}, limit : {3, 5},
           result : {None}] :
            n \in 0..MaxHunks }

PureCalls ==
  ShouldRetryCalls \cup BackoffCalls \cup SameReviewCalls
  \cup PatchesToPackCalls \cup PackCalls \cup MapperCalls \cup ParseReviewCalls
  \cup SplitPatchCalls \cup ParsePatchCalls \cup ClassifyErrorCalls
  \cup UpdateFileStatusCalls \cup DoReviewCalls

InitPure ==
  /\ clock = 0
  /\ \E c \in CommitIds, fs \in FileLists :
       state = createReviewState(c, fs, toISOString(0))
  /\ last \in PureCalls
  /\ stored = None
  /\ run = [pc |-> "idle"]

\* The call of last returns r
Return(r) ==
  /\ last.result = None
  /\ last' = [last EXCEPT !.result = Some(r)]
  /\ UNCHANGED <<state, clock, stored, run>>

ApplyShouldRetry ==
  /\ last.op = "shouldRetry"
  /\ Return(shouldRetry(last.currentAttempt, last.errorType, last.config))

ApplyCalculateBackoffDelay ==
  /\ last.op = "calculateBackoffDelay"
  /\ Return(calculateBackoffDelay(last.attempt, last.baseDelay, last.maxDelay))

ApplyIsSameReview ==
  /\ last.op = "isSameReview"
  /\ Return(isSameReview(last.state1, last.state2))

ApplyCalculatePatchesToPack ==
  /\ last.op = "calculatePatchesToPack"
  /\ Return(calculatePatchesToPack(last.patches, last.baseTokens, last.limit))

ApplyPackPatchesIntoInputs ==
  /\ last.op = "packPatchesIntoInputs"
  /\ Return(packPatchesIntoInputs(last.patches, last.chains, last.patchesToPack,
                                  last.baseTokens, last.limit))

ApplyMapReviewToPatch ==
  /\ last.op = "mapReviewToPatch"
  /\ Return(mapReviewToPatch(last.patches, last.review))

ApplyParseReview ==
  /\ last.op = "parseReview"
  /\ Return(parseReview(last.response, last.patches))

ApplySplitPatch ==
  /\ last.op = "splitPatch"
  /\ Return(splitPatch(last.patch))

ApplyParsePatch ==
  /\ last.op = "parsePatch"
  /\ Return(parsePatch(last.patch))

ApplyClassifyError ==
  /\ last.op = "classifyError"
  /\ Return(classifyError(last.error))

ApplyUpdateFileStatus ==
  /\ last.op = "updateFileStatus"
  /\ Return(updateFileStatusCall(last.state, last.filename, last.status,
                                 last.options, last.now))

ApplyDoReview ==
  /\ last.op = "doReview"
  /\ Return(assembleReviewRequest(last.patches, last.chains, last.baseTokens,
                                  last.limit))

NextPure ==
  \/ ApplyShouldRetry
  \/ ApplyCalculateBackoffDelay
  \/ ApplyIsSameReview
  \/ ApplyCalculatePatchesToPack
  \/ ApplyPackPatchesIntoInputs
  \/ ApplyMapReviewToPatch
  \/ ApplyParseReview
  \/ ApplySplitPatch
  \/ ApplyParsePatch
  \/ ApplyClassifyError
  \/ ApplyUpdateFileStatus
  \/ ApplyDoReview

SpecPure == InitPure /\ [][NextPure]_vars

----------------------------------------------------------------------------
(* retry-logic.ts, a retry loop on shouldRetry: an operation that keeps    *)
(* failing with one error type is retried while shouldRetry(attempt, type, *)
(* config) holds, attempt counting from 0; run.retries counts the retries. *)

InitRetry ==
  /\ clock = 0
  /\ \E c \in CommitIds, fs \in FileLists :
       state = createReviewState(c, fs, toISOString(0))
  /\ last = NoCall
  /\ stored = None
  /\ \E t \in ErrorType, c \in RetryConfigs :
       run = [pc |-> "retrying", errorType |-> t, config |-> c,
              attempt |-> 0, retries |-> 0]

\* shouldRetry holds: the operation is tried again, and fails again
Retry ==
  /\ run.pc = "retrying"
  /\ shouldRetry(run.attempt, run.errorType, run.config)
  /\ run' = [run EXCEPT !.attempt = @ + 1, !.retries = @ + 1]
  /\ UNCHANGED <<state, clock, last, stored>>

\* shouldRetry does not hold: the loop ends
GiveUp ==
  /\ run.pc = "retrying"
  /\ ~shouldRetry(run.attempt, run.errorType, run.config)
  /\ run' = [run EXCEPT !.pc = "gaveUp"]
  /\ UNCHANGED <<state, clock, last, stored>>

NextRetry == Retry \/ GiveUp

\* The loop takes its next step as long as it has one
SpecRetry == InitRetry /\ [][NextRetry]_vars /\ WF_vars(NextRetry)

----------------------------------------------------------------------------
(* Properties of the review state, checked on every state reachable from   *)
(* createReviewState by updateFileStatus, updatePhase and recordError.     *)

\* The number of entries of files that satisfy P
CountWhere(files, P(_)) == Cardinality({i \in 1..Len(files) : P(files[i].status)})

\* r lists the elements of src at the positions keep, in src's order
IsOrderedSelection(r, src, keep) ==
  /\ Len(r) = Cardinality(keep)
  /\ \A k \in 1..Len(r) :
       \E i \in keep : /\ Cardinality({j \in keep : j < i}) = k - 1
                       /\ r[k] = src[i]

\* The entries of seq as a set
Range(seq) == {seq[i] : i \in 1..Len(seq)}

\* C1: a file whose status is reviewed or skipped is never returned by
\* getFilesToProcess, nor by filterFilesForResume called with the state, in
\* either phase.
C1_CompletedNeverHandedOut ==
  \A i \in 1..Len(state.files) :
    IsCompleted(state.files[i].status) =>
      /\ state.files[i] \notin Range(getFilesToProcess(state))
      /\ \A all \in AllFilesInputs, phase \in Phase :
           state.files[i].filename
             \notin Range(filterFilesForResume(all, Some(state), phase))

\* In the reviewing phase one file is reviewed and the other is still handed out
C1_Witness ==
  /\ state.phase = "reviewing"
  /\ state.files[1].status = "reviewed"
  /\ getFilesToProcess(state) = <<state.files[2]>>
  /\ filterFilesForResume(<<"a.ts", "b.ts">>, Some(state), "reviewing") = <<"b.ts">>

C3_FilesToProcessByPhase ==
  LET wanted == IF state.phase = "summarizing"
                THEN {"pending", "failed", "summarizing"}
                ELSE {"summarized", "reviewing"}
      keep   == {i \in 1..Len(state.files) : state.files[i].status \in wanted}
  IN  /\ IsOrderedSelection(getFilesToProcess(state), state.files, keep)
      /\ state.phase = "reviewing" =>
           \A k \in 1..Len(getFilesToProcess(state)) :
             getFilesToProcess(state)[k].status /= "failed"

\* In the reviewing phase a failed file is left out and a summarized one returned
C3_Witness ==
  /\ state.phase = "reviewing"
  /\ state.files[1].status = "failed"
  /\ state.files[2].status = "summarized"
  /\ getFilesToProcess(state) = <<state.files[2]>>

\* C4: filterFilesForResume returns allFiles unchanged for a null state, and
\* otherwise exactly the elements of allFiles whose filename is in
\* getFilesToProcess(state), in allFiles' order, whatever its phase argument.
C4_FilterFilesForResume ==
  \A all \in AllFilesInputs, phase \in Phase :
    /\ filterFilesForResume(all, None, phase) = all
    /\ LET names == Filenames(getFilesToProcess(state))
           keep  == {i \in 1..Len(all) : all[i] \in names}
       IN  IsOrderedSelection(filterFilesForResume(all, Some(state), phase), all, keep)

\* The state is in the summarizing phase with a.ts summarized and b.ts failed:
\* called with phase reviewing, the filter still selects by state.phase and
\* keeps allFiles' order
C4_Witness ==
  /\ state.phase = "summarizing"
  /\ state.files[1].status = "summarized"
  /\ state.files[2].status = "failed"
  /\ filterFilesForResume(<<"b.ts", "x.ts", "a.ts">>, Some(state), "reviewing") = <<"b.ts">>
  /\ filterFilesForResume(<<"b.ts", "x.ts", "a.ts">>, None, "reviewing")
       = <<"b.ts", "x.ts", "a.ts">>

\* C5 as stated: the status of a file changes only along an edge of the
\* per-file status graph.
C5_OnlyGraphEdges ==
  [][\A i \in 1..Len(state.files) :
       state'.files[i].status /= state.files[i].status =>
         <<state.files[i].status, state'.files[i].status>> \in StatusGraph]_vars

\* C5 as amended: updateFileStatus enforces no status graph; a call naming a
\* tracked file leaves that file with the requested status, whatever its
\* status was.
C5_AnyTransitionPerformed ==
  (last.op = "updateFileStatus" /\ ~last.threw) =>
    state.files[findIndex(state.files, last.filename)].status = last.to

\* updateFileStatus took a file from pending straight to reviewed
C5_Witness ==
  /\ last.op = "updateFileStatus"
  /\ ~last.threw
  /\ last.from = "pending"
  /\ last.to = "reviewed"
  /\ state.files[findIndex(state.files, last.filename)].status = "reviewed"

\* C6: once the phase is reviewing it never becomes summarizing again.
C6_PhaseForwardOnly ==
  [][state.phase = "reviewing" => state'.phase = "reviewing"]_vars

\* The state read back from its own serialization
RoundTrip(s) == deserializeState(serializeState(s))

\* C7 as stated: deserializeState(serializeState(s)) equals s for every state
\* built by createReviewState and the three calls.
C7_RoundTripAlways ==
  /\ RoundTrip(state).outcome = "state"
  /\ ReadState(RoundTrip(state).value) = state

\* C7 as amended: the round trip returns s when s.commitId is not the empty
\* string; for an empty commitId deserializeState returns null.
C7_RoundTripUnlessEmptyCommit ==
  IF state.commitId /= ""
  THEN /\ RoundTrip(state).outcome = "state"
       /\ ReadState(RoundTrip(state).value) = state
  ELSE RoundTrip(state) = ReturnedNull

\* A state with a recorded error, one file updated with options and one
\* updated without, read back whole
C7_Witness ==
  /\ state.commitId = "abc123"
  /\ state.phase = "reviewing"
  /\ state.lastError /= None
  /\ state.files[1].status = "failed"
  /\ state.files[1].error = Some("Timeout")
  /\ state.files[2].status = "reviewed"
  /\ state.files[2].error = None
  /\ state.updatedAt /= state.startedAt
  /\ RoundTrip(state).outcome = "state"
  /\ ReadState(RoundTrip(state).value).files[2].status = "reviewed"

\* The text is not JSON, or denotes a value without version, startedAt,
\* commitId or an array files, or with a version other than "1.0"
Malformed(json) ==
  \/ json = NotJson
  \/ json.j = "null"
  \/ Get(json, "version") = Undefined
  \/ Get(json, "startedAt") = Undefined
  \/ Get(json, "commitId") = Undefined
  \/ Get(json, "files").j /= "array"
  \/ Get(json, "version") /= JString("1.0")

\* C8: deserializeState never throws, and returns null for text that is not
\* JSON, that lacks version, startedAt, commitId or an array files, or whose
\* version is not "1.0".
C8_DeserializeNeverThrows ==
  last.op = "deserializeState" =>
    /\ last.result.outcome /= "throw"
    /\ Malformed(last.input) => last.result = ReturnedNull

\* The stored text was the JSON null, whose property read throws inside the
\* try block, and the call returned null
C8_Witness ==
  /\ last.op = "deserializeState"
  /\ last.input = JNull
  /\ last.result = ReturnedNull

\* C9: at every point of a codeReview run the number of LLM calls in flight
\* is at most openaiConcurrencyLimit and the number of source-control calls
\* in flight is at most githubConcurrencyLimit.
C9_PoolBounds ==
  /\ LLMCallsInFlight(run) <= run.options.openaiConcurrencyLimit
  /\ GithubCallsInFlight(run) <= run.options.githubConcurrencyLimit

\* The names a run can be ended by: the calls the driver itself awaits
DriverCalls == {"summarizeChangesets", "finalSummaries", "finalComment"}

\* A summarize or review task that has settled
SummarySettled(t) == t.summary \notin {"queued", "chat"}
ReviewSettled(t) == t.review \notin {"queued", "chain", "chat"}

\* The files whose LLM call threw or returned nothing
LLMFailed(r) ==
  {f \in RunFileSet :
     r.task[f].summary \in {"empty", "threw"} \/ r.task[f].review \in {"empty", "threw"}}

HasReturned(op) == last.op = op /\ last.result /= None

\* C11: shouldRetry(attempt, type, config) is false for token_limit, the one
\* type whose strategy is not retryable, whatever the attempt and the config;
\* for every other type it is attempt < m, where m is the type's entry of
\* config.perErrorTypeMaxAttempts when there is one and config.maxAttempts
\* otherwise.
C11_ShouldRetry ==
  HasReturned("shouldRetry") =>
    LET overrides == last.config.perErrorTypeMaxAttempts
        set == overrides /= None /\ overrides[1][last.errorType] /= None
        m == IF set THEN overrides[1][last.errorType][1] ELSE last.config.maxAttempts
    IN  /\ ~getRetryStrategy(last.errorType).shouldRetry => last.result[1] = FALSE
        /\ last.errorType = "token_limit" => last.result[1] = FALSE
        /\ last.errorType /= "token_limit" =>
             last.result[1] = (last.currentAttempt < m)

\* A first attempt on token_limit under a config that allows token_limit five
\* attempts was refused
C11_Witness ==
  /\ HasReturned("shouldRetry")
  /\ last.errorType = "token_limit"
  /\ last.currentAttempt = 0
  /\ last.config.maxAttempts = 3
  /\ last.config.perErrorTypeMaxAttempts /= None
  /\ last.config.perErrorTypeMaxAttempts[1]["token_limit"] = Some(5)
  /\ last.result = Some(FALSE)

\* C12: for attempt, baseDelay >= 0 and maxDelay >= 0 (300000 when left out)
\* calculateBackoffDelay is min(baseDelay * 2^max(attempt, 0), maxDelay), it
\* is 0 when baseDelay is 0, it never exceeds maxDelay, it does not decrease
\* when attempt grows, and it is 1000, 2000, 4000, 8000, 16000 for baseDelay
\* 1000 and attempts 0 to 4.
C12_BackoffDelay ==
  HasReturned("calculateBackoffDelay") =>
    LET cap == IF last.maxDelay = None THEN 300000 ELSE last.maxDelay[1]
        exp == IF last.attempt > 0 THEN last.attempt ELSE 0
        doubled == [n \in 0..(MaxBackoffAttempt + 1) |->
                      IF n = 0 THEN 1 ELSE 2 ^ n]
        exact == last.baseDelay * doubled[exp]
        delay == last.result[1]
    IN  /\ delay = (IF exact <= cap THEN exact ELSE cap)
        /\ last.baseDelay = 0 => delay = 0
        /\ delay <= cap
        /\ delay <= calculateBackoffDelay(last.attempt + 1, last.baseDelay, last.maxDelay)
        /\ last.baseDelay = 1000 /\ last.maxDelay = None /\ last.attempt \in 0..4 =>
             delay = <<1000, 2000, 4000, 8000, 16000>>[last.attempt + 1]

\* The tenth attempt with base delay 1000 and no maxDelay was capped at the
\* default of five minutes
C12_Witness ==
  /\ HasReturned("calculateBackoffDelay")
  /\ last.attempt = 10
  /\ last.baseDelay = 1000
  /\ last.maxDelay = None
  /\ last.result = Some(300000)

\* C13: isReviewComplete(state) is true exactly when completedFiles +
\* failedFiles = totalFiles, which in every state reachable from
\* createReviewState by updateFileStatus is exactly when every file is
\* reviewed, skipped or failed: a failed file counts toward completion.
C13_ReviewComplete ==
  /\ isReviewComplete(state) <=>
       state.completedFiles + state.failedFiles = state.totalFiles
  /\ isReviewComplete(state) <=>
       \A i \in 1..Len(state.files) :
         state.files[i].status \in {"reviewed", "skipped", "failed"}

\* The review is complete with one file failed and the other reviewed
C13_Witness ==
  /\ state.files[1].status = "failed"
  /\ state.files[2].status = "reviewed"
  /\ isReviewComplete(state)

\* C15: updateFileStatus with a filename that is not in state.files throws
\* the not-found error, returns no state, and leaves the state it was given
\* (statuses, counters, phase, timestamps) as it was; with a filename that is
\* in state.files it does not throw.
C15_NotFoundLeavesState ==
  [][ last'.op = "updateFileStatus" =>
        /\ last'.threw <=> last'.filename \notin Filenames(state.files)
        /\ last'.threw => state' = state ]_vars

\* The call named a file the state does not hold, at a later instant than the
\* last update of a state whose files had already moved on
C15_Witness ==
  /\ last.op = "updateFileStatus"
  /\ last.threw
  /\ last.filename = "nonexistent.ts"
  /\ state.files[1].status = "reviewed"
  /\ state.updatedAt /= now

\* C14: isSameReview(a, b) is true exactly when both states are present,
\* their commitId values are equal, and the set of filenames of a.files equals
\* the set of filenames of b.files.
C14_SameReview ==
  HasReturned("isSameReview") =>
    last.result[1] =
      ( /\ last.state1 /= None
        /\ last.state2 /= None
        /\ last.state1[1].commitId = last.state2[1].commitId
        /\ Filenames(last.state1[1].files) = Filenames(last.state2[1].files) )

\* The token cost of the first k hunks
RECURSIVE PrefixTokens(_, _)
PrefixTokens(patches, k) ==
  IF k = 0 THEN 0 ELSE PrefixTokens(patches, k - 1) + patches[k].tokens

\* C16: calculatePatchesToPack(hunks, baseTokens) returns the largest k such
\* that baseTokens plus the token cost of the first k hunks, in their order,
\* does not exceed the limit: every counted prefix fits, the hunk after the
\* last counted one does not, and nothing is counted when baseTokens alone
\* exceeds the limit.
C16_PatchesToPack ==
  HasReturned("calculatePatchesToPack") =>
    LET k == last.result[1]
        fits(j) == last.baseTokens + PrefixTokens(last.patches, j) <= last.limit
    IN  /\ k \in 0..Len(last.patches)
        /\ \A j \in 1..k : fits(j)
        /\ k < Len(last.patches) => ~fits(k + 1)
        /\ fits(0) => \A j \in 0..Len(last.patches) : fits(j) => j <= k
        /\ ~fits(0) => k = 0

\* Of three hunks the first fit, the second did not, and the third, which
\* would have fitted in its place, was not counted
C16_Witness ==
  /\ HasReturned("calculatePatchesToPack")
  /\ Len(last.patches) = 3
  /\ last.baseTokens = 2
  /\ last.limit = 5
  /\ last.patches[1].tokens = 1
  /\ last.patches[2].tokens = 3
  /\ last.patches[3].tokens = 1
  /\ last.result = Some(1)

\* The tokens packPatchesIntoInputs has accounted for before hunk j: the base
\* prompt and the comment chains that fitted
RECURSIVE BudgetUsedBefore(_, _, _, _)
BudgetUsedBefore(chains, baseTokens, limit, j) ==
  IF j = 1 THEN baseTokens
  ELSE LET before == BudgetUsedBefore(chains, baseTokens, limit, j - 1)
       IN  IF before + chains[j - 1] > limit THEN before ELSE before + chains[j - 1]

\* C17: packPatchesIntoInputs emits exactly min(count, number of hunks) hunks,
\* the first ones in order, and the comment chain of an emitted hunk is in the
\* request body only if it fits the remaining token budget.
C17_PackedChainsFit ==
  HasReturned("packPatchesIntoInputs") =>
    LET body == last.result[1].patches
    IN  /\ Len(body) = Min(last.patchesToPack, Len(last.patches))
        /\ last.result[1].patchesPacked = Len(body)
        /\ \A j \in 1..Len(body) :
             /\ body[j].patch = last.patches[j]
             /\ body[j].commentChain /= None =>
                  BudgetUsedBefore(last.chains, last.baseTokens, last.limit, j)
                    + last.chains[j] <= last.limit

\* The range of the review lies within hunk h
InsideHunk(review, h) ==
  /\ review.startLine <= review.endLine
  /\ h.startLine <= review.startLine
  /\ review.endLine <= h.endLine

\* The number of lines the range of the review shares with hunk h
Overlap(review, h) ==
  Cardinality((review.startLine..review.endLine) \cap (h.startLine..h.endLine))

\* C18: a range with startLine <= endLine that lies fully inside the new-line
\* range of at least one hunk keeps its startLine and endLine, and the comment
\* is the parsed body with no note prepended.
C18_InsideHunkUnchanged ==
  HasReturned("mapReviewToPatch") =>
    ( (\E i \in 1..Len(last.patches) : InsideHunk(last.review, last.patches[i]))
        => last.result[1] = last.review )

\* The range 2-3 shares a line with the first hunk 1-2 and lies inside the
\* second hunk 2-5, and was kept
C18_Witness ==
  /\ HasReturned("mapReviewToPatch")
  /\ last.review.startLine = 2
  /\ last.review.endLine = 3
  /\ Len(last.patches) = 2
  /\ last.patches[1].startLine = 1
  /\ last.patches[1].endLine = 2
  /\ last.patches[2].startLine = 2
  /\ last.patches[2].endLine = 5
  /\ last.result[1] = last.review

\* C19: a range that is not fully inside one hunk is remapped to the bounds
\* of the hunk sharing the most lines with it, the first such hunk on ties,
\* with the note that gives the original lines; when no hunk shares a line
\* with it, it is remapped to the bounds of the first hunk with the
\* no-overlap note. The result is always the bounds of a hunk of the file.
C19_OutsideHunkRemapped ==
  HasReturned("mapReviewToPatch") =>
    ( (~\E i \in 1..Len(last.patches) : InsideHunk(last.review, last.patches[i])) =>
        LET n == Len(last.patches)
            most == CHOOSE k \in 0..MaxLine :
                      /\ \A i \in 1..n : Overlap(last.review, last.patches[i]) <= k
                      /\ \E i \in 1..n : Overlap(last.review, last.patches[i]) = k
            first == CHOOSE i \in 1..n :
                       /\ Overlap(last.review, last.patches[i]) = most
                       /\ \A j \in 1..(i - 1) : Overlap(last.review, last.patches[j]) < most
            target == IF most = 0 THEN last.patches[1] ELSE last.patches[first]
            note == IF most = 0
                    THEN NoOverlapNote(last.review.startLine, last.review.endLine)
                    ELSE GreatestOverlapNote(last.review.startLine, last.review.endLine)
        IN  /\ last.result[1].startLine = target.startLine
            /\ last.result[1].endLine = target.endLine
            /\ last.result[1].comment = note \o last.review.comment
            /\ \E i \in 1..n :
                 /\ last.result[1].startLine = last.patches[i].startLine
                 /\ last.result[1].endLine = last.patches[i].endLine )

\* The range 2-5 shares two lines with each of the hunks 1-3 and 4-5 and was
\* remapped to the first
C19_Witness ==
  /\ HasReturned("mapReviewToPatch")
  /\ last.review.startLine = 2
  /\ last.review.endLine = 5
  /\ Len(last.patches) = 2
  /\ last.patches[1].startLine = 1
  /\ last.patches[1].endLine = 3
  /\ last.patches[2].startLine = 4
  /\ last.patches[2].endLine = 5
  /\ last.result[1].startLine = 1
  /\ last.result[1].endLine = 3
  /\ last.result[1].comment /= last.review.comment

\* The text of the lines i..j, each followed by a newline
RECURSIVE JoinLines(_, _, _)
JoinLines(lines, i, j) ==
  IF i > j THEN "" ELSE lines[i].text \o "\n" \o JoinLines(lines, i + 1, j)

\* C20: parseReview returns exactly one Review per range-marker line of the
\* response it reads (the response trimmed and with its code blocks
\* sanitized), in the order of the markers; the body of a Review is made of
\* the lines after its marker up to the next marker or separator, in order;
\* the lines before the first marker and those between a separator and the
\* next marker are in no Review. The Review is that range and body as the
\* mapper returns them.
C20_OneReviewPerMarker ==
  HasReturned("parseReview") =>
    LET lines == sanitizeResponse(Trim(last.response))
        reviews == last.result[1]
        markers == {i \in 1..Len(lines) : lines[i].kind = "marker"}
        \* the position of the k-th marker
        marker(k) == CHOOSE i \in markers :
                       Cardinality({j \in markers : j <= i}) = k
        \* the first marker or separator after line i, or the end
        stop(i) == CHOOSE j \in (i + 1)..(Len(lines) + 1) :
                     /\ j = Len(lines) + 1 \/ lines[j].kind \in {"marker", "separator"}
                     /\ \A h \in (i + 1)..(j - 1) : lines[h].kind = "text"
    IN  /\ Len(reviews) = Cardinality(markers)
        /\ \A k \in 1..Len(reviews) :
             reviews[k] =
               mapReviewToPatch(last.patches,
                 [startLine |-> lines[marker(k)].startLine,
                  endLine   |-> lines[marker(k)].endLine,
                  comment   |-> JoinLines(lines, marker(k) + 1, stop(marker(k)) - 1)])

\* A response of a preface, the marker 1-2 with one line of body and the
\* marker 4-5 with none: two Reviews in that order, the preface in neither,
\* the second remapped to the hunk
C20_Witness ==
  /\ HasReturned("parseReview")
  /\ last.response =
       <<TextLine("Looks good"), MarkerLine(1, 2), NumberedLine, MarkerLine(4, 5)>>
  /\ Len(last.result[1]) = 2
  /\ last.result[1][1] =
       [startLine |-> 1, endLine |-> 2, comment |-> "12: const x = 1\n"]
  /\ last.result[1][2].startLine = 1
  /\ last.result[1][2].endLine = 3

\* The text made of the text s followed by the text t
ConcatText(s, t) ==
  LET a == s[Len(s)]
      b == t[1]
      joined == IF a = EmptyLine THEN b
                ELSE IF b = EmptyLine THEN a
                ELSE DiffLine(a.mark, a.rest \o b.mark \o b.rest)
  IN  SubSeq(s, 1, Len(s) - 1) \o <<joined>> \o Tail(t)

\* The texts of the list, concatenated in order
RECURSIVE ConcatAll(_)
ConcatAll(texts) ==
  IF texts = <<>> THEN <<EmptyLine>>
  ELSE IF Len(texts) = 1 THEN texts[1]
  ELSE ConcatText(texts[1], ConcatAll(Tail(texts)))

\* The number of lines of the text that are headers with line counts
HeaderCount(lines) == Cardinality({i \in 1..Len(lines) : lines[i].header /= None})

\* C21 (as amended): for a diff text with N header lines "@@ -a,b +c,d @@",
\* splitPatch returns exactly N substrings, each starting at a header, whose
\* concatenation in order equals the input text from its first header on
\* (the text before the first header is in no substring); with no header,
\* or a null diff, it returns the empty list.
C21_SplitPatch ==
  HasReturned("splitPatch") =>
    LET r == last.result[1] IN
    IF last.patch = None
    THEN r = <<>>
    ELSE LET lines == last.patch[1] IN
         /\ Len(r) = HeaderCount(lines)
         /\ \A k \in 1..Len(r) : r[k][1].header /= None
         /\ HeaderCount(lines) > 0 =>
              ConcatAll(r) = SubstringFromLine(lines, firstMatch(lines))

\* C21 as stated: the concatenation of the substrings equals the input text.
C21_ConcatenationIsInput ==
  HasReturned("splitPatch") =>
    LET r == last.result[1] IN
    IF last.patch = None
    THEN r = <<>>
    ELSE LET lines == last.patch[1] IN
         /\ Len(r) = HeaderCount(lines)
         /\ \A k \in 1..Len(r) : r[k][1].header /= None
         /\ HeaderCount(lines) > 0 => ConcatAll(r) = lines

\* C21 witness: a text with a line before its first header and two headers
\* has been split into two substrings.
C21_Witness ==
  /\ HasReturned("splitPatch")
  /\ last.patch = Some(<<DiffLine("+", "added"), HunkHeader(1, 3, 1, 4),
                         DiffLine("+", "added"), HunkHeader(10, 2, 12, 2)>>)
  /\ last.result[1] = <<<<HunkHeader(1, 3, 1, 4), DiffLine("+", "added"), EmptyLine>>,
                        <<HunkHeader(10, 2, 12, 2)>>>>

\* The number of lines of the body up to position i that are not removed
NewRank(body, i) == Cardinality({j \in 1..i : body[j].mark /= "-"})

\* C22: in the new hunk of parsePatch there is one entry per added or context
\* line of the body; the number of an entry is the header's newStart plus the
\* count of added and context lines before it; every added line is numbered;
\* a context line is numbered exactly when the body has no added line or its
\* position in the body is after the first 3 and not within the last 3.
C22_NewHunkNumbers ==
  (HasReturned("parsePatch") /\ last.result[1] /= None) =>
    LET r == last.result[1][1].newHunk
        body == last.body
        noAdded == \A j \in 1..Len(body) : body[j].mark /= "+"
    IN  /\ Len(r) = NewRank(body, Len(body))
        /\ \A i \in 1..Len(body) :
             body[i].mark /= "-" =>
               LET e == r[NewRank(body, i)]
                   n == last.newStart + NewRank(body, i) - 1
               IN  /\ e.number \in {None, Some(n)}
                   /\ body[i].mark = "+" => e.number = Some(n)
                   /\ body[i].mark = " " =>
                        (e.number /= None <=>
                           (noAdded \/ (i > 3 /\ i <= Len(body) - 3)))

\* C22 witness: a hunk of seven body lines with an added and a removed line
\* has been rendered; its fourth body line, a context line, carries 14 and
\* its third and fifth are unnumbered.
C22_Witness ==
  /\ HasReturned("parsePatch")
  /\ last.body = <<DiffLine("+", "added"), DiffLine("-", "removed"),
                   DiffLine(" ", "context"), DiffLine(" ", "context"),
                   DiffLine(" ", "context"), DiffLine(" ", "context"),
                   DiffLine(" ", "context")>>
  /\ last.result[1] /= None
  /\ last.result[1][1].newHunk[1] = Numbered(12, "added")
  /\ last.result[1][1].newHunk[2] = Unnumbered(" context")
  /\ last.result[1][1].newHunk[3] = Numbered(14, " context")
  /\ last.result[1][1].newHunk[4] = Unnumbered(" context")

\* The keywords of the classes of classifyError, in the order of priority
ErrorClasses ==
  << [type |-> "rate_limit", keywords |-> {"rate limit", "429"}],
     [type |-> "timeout", keywords |-> {"timeout", "timed out"}],
     [type |-> "network",
      keywords |-> {"network", "econnreset", "enotfound", "econnrefused"}],
     [type |-> "api_error", keywords |-> {"api error", "bad request", "invalid"}] >>

\* The text holds a keyword of the k-th class, in whatever case
MentionsClass(error, k) ==
  \E i \in 1..Len(error) : toLowerCase(error[i]) \in ErrorClasses[k].keywords

\* C23: classifyError returns the type of the first class, in the order
\* rate_limit, timeout, network, api_error, of which the text holds a keyword
\* in whatever case, and unknown when it holds none; the result is one of
\* these five types.
C23_ClassifyError ==
  HasReturned("classifyError") =>
    LET r == last.result[1] IN
    /\ r \in {"rate_limit", "timeout", "network", "api_error", "unknown"}
    /\ \A k \in 1..Len(ErrorClasses) :
         (/\ MentionsClass(last.error, k)
          /\ \A j \in 1..(k - 1) : ~MentionsClass(last.error, j))
           => r = ErrorClasses[k].type
    /\ (\A k \in 1..Len(ErrorClasses) : ~MentionsClass(last.error, k))
         => r = "unknown"

\* C23 witness: a text that holds a network keyword and then a rate-limit
\* keyword, both in capitals, has been classified as rate_limit.
C23_Witness ==
  /\ HasReturned("classifyError")
  /\ last.error = <<"ECONNRESET", "Rate Limit">>
  /\ last.result[1] = "rate_limit"

\* The completions of the files, applied to s in the order of the list
RECURSIVE ApplyInOrder(_, _, _, _, _)
ApplyInOrder(s, files, i, reported, t) ==
  IF i > Len(files) THEN s
  ELSE ApplyInOrder(updateFileStatus(s, files[i], reported[files[i]][1].status,
                                     reported[files[i]][1].options, t),
                    files, i + 1, reported, t)

\* The statuses of the files of s, in order
Statuses(s) == [i \in 1..Len(s.files) |-> s.files[i].status]

\* The three counters of s
Counters(s) == <<s.completedFiles, s.failedFiles, s.skippedFiles>>

\* C24: with the completions applied one at a time, each to the state the
\* previous application returned, no update is lost: every file whose
\* completion has been applied holds the status it reported, the counters are
\* the per-status counts, and once all are applied the statuses and counters
\* are those of the application in the order of the file list, whatever the
\* order was.
C24_NoLostUpdate ==
  run.pc = "owner" =>
    /\ \A i \in 1..Len(run.order) :
         state.files[findIndex(state.files, run.order[i])].status
           = run.reported[run.order[i]][1].status
    /\ state.completedFiles = CountWhere(state.files, IsCompleted)
    /\ state.failedFiles = CountWhere(state.files, IsFailed)
    /\ state.skippedFiles = CountWhere(state.files, IsSkipped)
    /\ Len(run.order) = Len(OwnerFiles) =>
         LET inListOrder == ApplyInOrder(run.snapshot, OwnerFiles, 1,
                                         run.reported, now)
         IN  /\ Statuses(state) = Statuses(inListOrder)
             /\ Counters(state) = Counters(inListOrder)

\* C24 witness: the three completions have been applied in the order c.ts,
\* a.ts, b.ts, and the state holds one failed, one skipped and one reviewed
\* file.
C24_Witness ==
  /\ run.pc = "owner"
  /\ run.order = <<"c.ts", "a.ts", "b.ts">>
  /\ Statuses(state) = <<"failed", "skipped", "reviewed">>
  /\ Counters(state) = <<2, 1, 1>>

\* C25: a successful updateFileStatus returns a state with the same members,
\* the same version, startedAt, commitId, totalFiles, phase and lastError,
\* the same filenames in the same order and every entry but that of the file
\* unchanged; the state passed has the value it had before the call.
C25_Frame ==
  HasReturned("updateFileStatus") =>
    LET s == last.state
        r == last.result[1].returned
        k == findIndex(s.files, last.filename)
    IN  /\ DOMAIN r = DOMAIN s
        /\ r.version = s.version
        /\ r.startedAt = s.startedAt
        /\ r.commitId = s.commitId
        /\ r.totalFiles = s.totalFiles
        /\ r.phase = s.phase
        /\ r.lastError = s.lastError
        /\ Len(r.files) = Len(s.files)
        /\ \A j \in 1..Len(s.files) :
             /\ r.files[j].filename = s.files[j].filename
             /\ DOMAIN r.files[j] = DOMAIN s.files[j]
             /\ j /= k => r.files[j] = s.files[j]
        /\ last.result[1].argument = s

\* C25 witness: on a state in the reviewing phase with a recorded error and
\* b.ts failed, the call has set a.ts from reviewing to reviewed and returned
\* a state that differs from the one passed.
C25_Witness ==
  /\ HasReturned("updateFileStatus")
  /\ last.filename = "a.ts"
  /\ last.status = "reviewed"
  /\ last.state.phase = "reviewing"
  /\ last.state.lastError /= None
  /\ last.state.files[1].status = "reviewing"
  /\ last.state.files[2].status = "failed"
  /\ last.result[1].returned.files[1].status = "reviewed"
  /\ last.result[1].returned.completedFiles = 1
  /\ last.result[1].returned.updatedAt /= last.state.updatedAt

\* C26: a file of which no hunk fits the token budget is never in a review
\* call to the model nor in the wait for comment chains that precedes it;
\* once doReview has run for it, it is listed in reviewsSkipped with the
\* reason "diff too large" and is not in reviewsFailed.
C26_TooLargeSkipped ==
  run.pc \notin {"idle", "owner"} =>
    \A f \in RunFileSet :
      (Kept(f) /\ run.task[f].patchesToPack = 0) =>
        /\ run.task[f].review \in {"none", "queued", "tooLarge"}
        /\ f \notin run.reviewsFailed
        /\ run.task[f].review = "tooLarge" =>
             /\ (f \o " (diff too large)") \in run.reviewsSkipped
             /\ run.pc \in {"finalComment", "done"} =>
                  (f \o " (diff too large)") \in run.statusMsg

\* C26 witness: the summary of a.ts asked for a review, none of its hunks
\* fits, and the run has ended with a.ts listed as skipped for its size in
\* the posted status message.
C26_Witness ==
  /\ run.pc = "done"
  /\ run.posted
  /\ run.task["a.ts"].summary = "needsReview"
  /\ run.task["a.ts"].patchesToPack = 0
  /\ run.task["a.ts"].review = "tooLarge"
  /\ "a.ts (diff too large)" \in run.statusMsg
  /\ "a.ts" \notin run.reviewsFailed

\* C27: the retry loop ends, and when it has ended on a retryable type it
\* has made exactly as many retries as the maximum of attempts the config
\* gives for the type (none on a type that is not retryable); once
\* shouldRetry is false for the attempt it is false for every larger one.
C27_RetryLoopEnds ==
  /\ [](run.pc \in {"retrying", "gaveUp"} =>
          LET m == maxAttemptsFor(run.errorType, run.config)
              retryable == getRetryStrategy(run.errorType).shouldRetry
          IN  /\ run.retries = run.attempt
              /\ retryable => run.retries <= m
              /\ (run.pc = "gaveUp" /\ retryable) => run.retries = m
              /\ (run.pc = "gaveUp" /\ ~retryable) => run.retries = 0
              /\ ~shouldRetry(run.attempt, run.errorType, run.config) =>
                   \A a \in run.attempt..MaxRetryAttempt :
                     ~shouldRetry(a, run.errorType, run.config))
  /\ <>(run.pc = "gaveUp")

\* C27 witness: with the maximum for rate_limit overridden to 5 and a
\* general maximum of 1, the loop has ended after five retries.
C27_Witness ==
  /\ run.pc = "gaveUp"
  /\ run.errorType = "rate_limit"
  /\ run.config.maxAttempts = 1
  /\ run.config.perErrorTypeMaxAttempts /= None
  /\ run.config.perErrorTypeMaxAttempts[1]["rate_limit"] = Some(5)
  /\ run.retries = 5

\* C28: a file is in the review call to the model, or has been, only if its
\* summarize step produced a summary earlier in the run.
C28_ReviewedOnlyIfSummarized ==
  run.pc \notin {"idle", "owner", "retrying", "gaveUp"} =>
    \A f \in RunFileSet :
      run.task[f].review \in {"chat", "reviewed", "empty", "threw"} =>
        run.task[f].summary \in {"needsReview", "approved"}

\* The tokens of the hunks and of the comment chains in the request body
RECURSIVE BodyTokens(_)
BodyTokens(body) ==
  IF body = <<>> THEN 0
  ELSE body[1].patch.tokens
       + (IF body[1].commentChain /= None THEN body[1].commentChain[1] ELSE 0)
       + BodyTokens(Tail(body))

\* C29: the review request of a file stays within the request-token limit:
\* when hunks were packed, the base prompt tokens plus the tokens of the
\* hunks and of the comment chains in the request body are at most the limit.
C29_RequestWithinLimit ==
  (HasReturned("doReview") /\ last.result[1].patchesPacked > 0) =>
    last.baseTokens + BodyTokens(last.result[1].patches) <= last.limit

\* C30: the review state is never stuck: when the phase is reviewing and
\* getFilesToProcess returns no file, so that shouldResumeReview(true, state)
\* is false, isReviewComplete holds.
C30_NeverStuck ==
  (/\ state.phase = "reviewing"
   /\ getFilesToProcess(state) = <<>>
   /\ ~shouldResumeReview(TRUE, Some(state)))
    => isReviewComplete(state)

====
